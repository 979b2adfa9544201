------------------------------ MODULE SyncPlan ------------------------------
(***************************************************************************)
(* The plan of a batch run, sync/plan.py and sync/cache.py: what a         *)
(* collection lists is compared with the local archives, one source after  *)
(* the other, and put in an order.  Meanwhile the account changes, other   *)
(* commands capture, and archives are damaged or left half written.        *)
(***************************************************************************)
EXTENDS Naturals, SequencesExt

CONSTANTS
  Sources,     \* canonical identifiers, which are ordered: naturals
  Positions,   \* collection positions: naturals
  Unknown,     \* a value that is not given
  Verifiers,    \* whether build_plan is given a verifier
  MaxListed,   \* bound: descriptors of one listing
  MaxChanges,  \* bound: steps of the account, of other commands and of failures
  MaxPlans     \* bound: plans

VARIABLES
  remote,   \* contents of the sources, at the provider
  archive,  \* latest.json of each source, and the bundle it names
  listing,  \* the descriptors
  options,  \* force, retry_failed and the verifier
  cursor,   \* descriptor build_plan is at
  plan,     \* the records
  phase,
  changes, plans

planVars == <<remote, archive, listing, options, cursor, plan, phase, changes, plans>>

(* SourceDescriptor; content is what the source held when it was listed,   *)
(* which a provider that gives a remote_revision tells by it.              *)
Descriptors ==
  [id : Sources, position : Positions \cup {Unknown}, known : BOOLEAN]

(* Status of an item in the run that is resumed. *)
PriorStatus == {"absent", "interrupted", "failed-retryable", "complete"}

Options == [force : BOOLEAN, retry : BOOLEAN, verify : Verifiers]

NoArchive ==
  [pointer |-> "none", bundle |-> FALSE, intact |-> FALSE, content |-> 0, revision |-> Unknown]

Init ==
  /\ remote = [s \in Sources |-> 1]
  /\ archive = [s \in Sources |-> NoArchive]
  /\ listing = <<>>
  /\ options = [force |-> FALSE, retry |-> FALSE, verify |-> TRUE]
  /\ cursor = 0
  /\ plan = <<>>
  /\ phase = "idle"
  /\ changes = 0 /\ plans = 0

(* Mutant: two revisions that are not known are the same. *)
EvaluateCacheTrusting(d) ==
  LET a == archive[d.id] IN
  IF a.pointer # "readable" \/ ~a.bundle THEN [decision |-> "capture", version |-> FALSE]
  ELSE IF (options.verify /\ ~a.intact) \/ a.revision # d.revision
    THEN [decision |-> "capture", version |-> TRUE]
  ELSE [decision |-> IF options.verify THEN "skip" ELSE "probe", version |-> TRUE]

(* The decision for a descriptor, and whether it names a local version. *)
EvaluateCache(d) ==
  LET a == archive[d.id] IN
  IF a.pointer # "readable" \/ ~a.bundle THEN [decision |-> "capture", version |-> FALSE]
  ELSE IF options.verify /\ ~a.intact THEN [decision |-> "capture", version |-> TRUE]
  ELSE IF d.revision = Unknown
    THEN [decision |-> IF options.verify THEN "probe" ELSE "capture", version |-> TRUE]
  ELSE IF a.revision = Unknown THEN [decision |-> "probe", version |-> TRUE]
  ELSE IF a.revision # d.revision THEN [decision |-> "capture", version |-> TRUE]
  ELSE [decision |-> IF options.verify THEN "skip" ELSE "probe", version |-> TRUE]

(* _classify, of a source whose item was left with status p *)
Action(d, p) ==
  LET c == EvaluateCache(d) IN
  IF options.force THEN "capture-new"
  ELSE IF p = "interrupted" THEN "resume-incomplete"
  ELSE IF p = "failed-retryable" /\ options.retry THEN "retry-failed"
  ELSE IF c.decision = "skip" THEN "skip-verified-unchanged"
  ELSE IF c.decision = "probe" THEN "probe-required"
  ELSE IF c.version THEN "capture-changed" ELSE "capture-new"

Weight(x) == IF x = Unknown THEN 0 ELSE x

(* The sort key: sources without a position last, then by position, then   *)
(* by identifier.                                                          *)
Before(a, b) ==
  IF (a.position = Unknown) # (b.position = Unknown) THEN b.position = Unknown
  ELSE \/ Weight(a.position) < Weight(b.position)
       \/ Weight(a.position) = Weight(b.position) /\ a.id < b.id

Ordered(records) == SortSeq(records, Before)
-----------------------------------------------------------------------------
(* build_plan *)

List ==
  /\ phase \in {"idle", "planned"} /\ plans < MaxPlans
  /\ \E n \in 1 .. MaxListed : \E ds \in [1 .. n -> Descriptors] :
       listing' = [i \in 1 .. n |->
                     [id |-> ds[i].id, position |-> ds[i].position, content |-> remote[ds[i].id],
                      revision |-> IF ds[i].known THEN remote[ds[i].id] ELSE Unknown]]
  /\ options' \in Options
  /\ cursor' = 1 /\ plan' = <<>> /\ phase' = "classify"
  /\ plans' = plans + 1
  /\ UNCHANGED <<remote, archive, changes>>

Classify ==
  /\ phase = "classify" /\ cursor <= Len(listing)
  /\ \E p \in PriorStatus :
       LET d == listing[cursor] IN
       IF \E i \in DOMAIN plan : plan[i].id = d.id
         THEN cursor' = cursor + 1 /\ UNCHANGED <<plan, phase>>
         ELSE /\ plan' = Append(plan, [id |-> d.id, position |-> d.position, action |-> Action(d, p),
                                       decision |-> "none"])
              /\ IF options.force \/ Action(d, p) \in {"resume-incomplete", "retry-failed"}
                   THEN cursor' = cursor + 1 /\ UNCHANGED phase
                   ELSE phase' = "attach" /\ UNCHANGED cursor
  /\ UNCHANGED <<remote, archive, listing, options, changes, plans>>

(* The decision is evaluated once more, for the record. *)
Attach ==
  /\ phase = "attach"
  /\ plan' = [plan EXCEPT ![Len(plan)].decision = EvaluateCache(listing[cursor]).decision]
  /\ cursor' = cursor + 1 /\ phase' = "classify"
  /\ UNCHANGED <<remote, archive, listing, options, changes, plans>>

Order ==
  /\ phase = "classify" /\ cursor > Len(listing)
  /\ \E max_items \in {1, Len(plan)} : plan' = SubSeq(Ordered(plan), 1, max_items)
  /\ phase' = "planned"
  /\ UNCHANGED <<remote, archive, listing, options, cursor, changes, plans>>
-----------------------------------------------------------------------------
(* What happens meanwhile *)

Meanwhile ==
  /\ changes < MaxChanges /\ changes' = changes + 1
  /\ UNCHANGED <<listing, options, cursor, plan, phase, plans>>

(* The owner changes a source. *)
Edit(s) ==
  /\ Meanwhile
  /\ remote' = [remote EXCEPT ![s] = @ + 1]
  /\ UNCHANGED archive

(* A command archives a source and records its revision, or does not. *)
Archive(s) ==
  /\ Meanwhile
  /\ \E r \in {remote[s], Unknown} :
       archive' = [archive EXCEPT ![s] = [pointer |-> "readable", bundle |-> TRUE, intact |-> TRUE,
                                          content |-> remote[s], revision |-> r]]
  /\ UNCHANGED remote

(* An archive is damaged, its bundle removed, or its pointer left empty. *)
Damage(s) ==
  /\ archive[s].pointer # "none" /\ Meanwhile
  /\ \/ archive' = [archive EXCEPT ![s].intact = FALSE]
     \/ archive' = [archive EXCEPT ![s].bundle = FALSE]
     \/ archive' = [archive EXCEPT ![s].pointer = "unreadable"]
  /\ UNCHANGED remote

Process == List \/ Classify \/ Attach \/ Order

Next ==
  \/ Process
  \/ \E s \in Sources : Edit(s) \/ Archive(s) \/ Damage(s)

Spec == Init /\ [][Next]_planVars
-----------------------------------------------------------------------------

TypeOK ==
  /\ archive \in [Sources -> [pointer : {"none", "readable", "unreadable"}, bundle : BOOLEAN,
                              intact : BOOLEAN, content : Nat, revision : Nat \cup {Unknown}]]
  /\ phase \in {"idle", "classify", "attach", "planned"}
  /\ cursor \in 0 .. MaxListed + 1

(* A source is skipped only when its archive, as it is at that moment, is  *)
(* whole and holds what the provider listed: sync never leaves a change    *)
(* out, nor relies on an archive that is damaged.                          *)
SkipMeansUnchanged ==
  [][(\E i \in DOMAIN plan' : i > Len(plan) /\ plan'[i].action = "skip-verified-unchanged") =>
       LET d == listing[cursor]  a == archive[d.id] IN
       a.pointer = "readable" /\ a.bundle /\ a.intact /\ a.content = d.content]_planVars
=============================================================================
