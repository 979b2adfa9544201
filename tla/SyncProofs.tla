----------------------------- MODULE SyncProofs -----------------------------
(***************************************************************************)
(* Proofs about SyncRun for every set of sources and every number of       *)
(* retries, signals, kills and errors, whenever these strike: its type     *)
(* invariant; a run that says it is over accounts for all its sources; no  *)
(* source is reported captured that has no archive; without a signal       *)
(* run.json can always be read; and after a single error or signal it says *)
(* how the run ended.                                                      *)
(***************************************************************************)
EXTENDS SyncRun, TLAPS

USE DEF At, Save, disk, locals, budget

(* What a RunState is made of. *)
LEMMA RunStateFields ==
  ASSUME NEW x \in RunState
  PROVE  /\ x.status \in RunStatus
         /\ x.found \subseteq Sources
         /\ x.complete \in BOOLEAN
         /\ x.items \in [Sources -> Item]
  BY DEF RunState

(* The updates the runner makes to a RunState yield one. *)
LEMMA RunStateUpdates ==
  ASSUME NEW x \in RunState
  PROVE  /\ \A st \in RunStatus : [x EXCEPT !.status = st] \in RunState
         /\ \A D \in SUBSET Sources, c \in BOOLEAN :
              [x EXCEPT !.found = D, !.complete = c] \in RunState
         /\ \A st \in RunStatus, f \in [Sources -> Item] :
              [x EXCEPT !.status = st, !.items = f] \in RunState
         /\ \A s \in Sources, i \in Item : [x EXCEPT !.items[s] = i] \in RunState
         /\ \A s \in Sources, st \in ItemStatus :
              [x EXCEPT !.items[s].status = st] \in RunState
  <1>1. \A st \in RunStatus : [x EXCEPT !.status = st] \in RunState
    BY DEF RunState
  <1>2. \A D \in SUBSET Sources, c \in BOOLEAN :
          [x EXCEPT !.found = D, !.complete = c] \in RunState
    BY DEF RunState
  <1>3. \A st \in RunStatus, f \in [Sources -> Item] :
          [x EXCEPT !.status = st, !.items = f] \in RunState
    BY DEF RunState
  <1>4. \A s \in Sources, i \in Item : [x EXCEPT !.items[s] = i] \in RunState
    BY DEF RunState
  <1>5. \A s \in Sources, st \in ItemStatus :
          [x EXCEPT !.items[s].status = st] \in RunState
    BY DEF RunState, Item
  <1> QED BY <1>1, <1>2, <1>3, <1>4, <1>5

LEMMA ConstantRecords ==
  /\ Unplanned \in Item
  /\ Planned \in Item
  /\ InitialState \in RunState
  <1>1. Unplanned \in Item
    BY ConstantsAssumption DEF ConstantsAssumption, Unplanned, Item, ItemStatus
  <1>2. Planned \in Item
    BY <1>1 DEF Planned, Item, ItemStatus
  <1>3. InitialState \in RunState
    BY <1>1 DEF InitialState, RunState, RunStatus
  <1> QED BY <1>1, <1>2, <1>3

(* The runner only captures a source it knows. *)
CurKnown ==
  step \in {"announce", "attempt", "record"} => cur \in Sources /\ io = "none"

TypeInv == TypeOK /\ CurKnown

LEMMA TypeInit == Init => TypeInv
  <1> SUFFICES ASSUME Init PROVE TypeInv
    OBVIOUS
  <1>1. /\ faults \in 0 .. MaxFaults
        /\ signals \in 0 .. MaxSignals
        /\ kills \in 0 .. MaxKills
    BY ConstantsAssumption DEF ConstantsAssumption, Init
  <1>2. /\ run \in RunState \cup {NoRun, Unreadable}
        /\ archived \subseteq Sources
        /\ state \in RunState /\ temp \in RunState
        /\ step \in Steps /\ io \in Io
        /\ descriptors \subseteq Sources /\ cur \in Sources \cup {NoSource}
        /\ interrupted \in BOOLEAN /\ dry \in BOOLEAN
    BY ConstantRecords DEF Init, Steps, Io
  <1>3. TypeOK
    BY <1>1, <1>2 DEF TypeOK
  <1>4. CurKnown
    BY DEF Init, CurKnown
  <1> QED BY <1>3, <1>4 DEF TypeInv

LEMMA TypeGone ==
  ASSUME TypeInv, Gone,
         run' \in RunState \cup {NoRun, Unreadable}, archived' \subseteq Sources,
         faults' \in 0 .. MaxFaults, signals' \in 0 .. MaxSignals, kills' \in 0 .. MaxKills
  PROVE  TypeInv'
  BY ConstantRecords DEF TypeInv, TypeOK, CurKnown, Gone, Steps, Io

LEMMA TypeSave ==
  ASSUME TypeInv, NEW x \in RunState,
         NEW next \in Steps \ {"announce", "attempt", "record"}, Save(x, next),
         archived' \subseteq Sources, descriptors' \subseteq Sources,
         cur' \in Sources \cup {NoSource}, interrupted' \in BOOLEAN, dry' \in BOOLEAN,
         faults' \in 0 .. MaxFaults, UNCHANGED <<signals, kills>>
  PROVE  TypeInv'
  BY DEF TypeInv, TypeOK, CurKnown, Io

(* A retry stays within the bound, and every attempt yields an item. *)
LEMMA TypeAttempt ==
  ASSUME TypeInv, Attempt
  PROVE  TypeInv'
  <1> USE DEF TypeInv, TypeOK, CurKnown
  <1>0. cur \in Sources /\ step = "attempt"
    BY DEF Attempt, CaptureSucceeds, CaptureFails, CaptureRetried
  <1>1. state.items[cur] \in Item
    BY <1>0, RunStateFields
  <1>2. PICK i \in Item : SetItem(i)
    <2>1. CASE \E st \in {"complete", "unchanged"} : CaptureSucceeds(st)
      <3>1. PICK st \in {"complete", "unchanged"} : CaptureSucceeds(st)
        BY <2>1
      <3>2. [state.items[cur] EXCEPT !.status = st] \in Item
        BY <1>1 DEF Item, ItemStatus
      <3> QED BY <3>1, <3>2 DEF CaptureSucceeds
    <2>2. CASE CaptureFails
      <3>1. [state.items[cur] EXCEPT !.status = "failed-terminal"] \in Item
        BY <1>1 DEF Item, ItemStatus
      <3> QED BY <2>2, <3>1 DEF CaptureFails
    <2>3. CASE CaptureRetried
      <3>1. [state.items[cur] EXCEPT !.retries = @ + 1] \in Item
        <4>1. state.items[cur].retries + 1 \in 0 .. MaxRetries
          BY <1>1, <2>3, ConstantsAssumption DEF ConstantsAssumption, Item, CaptureRetried
        <4> QED BY <1>1, <4>1 DEF Item
      <3> QED BY <2>3, <3>1 DEF CaptureRetried
    <2> QED BY <2>1, <2>2, <2>3 DEF Attempt
  <1>3. state' \in RunState
    BY <1>0, <1>2, RunStateUpdates DEF SetItem
  <1>4. archived' \subseteq Sources /\ step' = "record" /\ UNCHANGED <<run, temp, io, locals, budget>>
    BY <1>0 DEF Attempt, CaptureSucceeds, CaptureFails, CaptureRetried
  <1>5. io = "none"
    BY <1>0
  <1> QED BY <1>0, <1>3, <1>4, <1>5 DEF Steps

LEMMA TypeFault ==
  ASSUME TypeInv, NEW kind, Fault(kind)
  PROVE  /\ faults' \in 0 .. MaxFaults
         /\ UNCHANGED <<signals, kills>>
  BY ConstantsAssumption DEF ConstantsAssumption, TypeInv, TypeOK, Fault

LEMMA TypeRaise ==
  ASSUME TypeInv, Raise, faults' \in 0 .. MaxFaults,
         UNCHANGED <<archived, locals, signals, kills>>
  PROVE  TypeInv'
  <1>1. [state EXCEPT !.status = "failed"] \in RunState
    BY RunStateUpdates DEF TypeInv, TypeOK, RunStatus
  <1>2. archived' \subseteq Sources /\ descriptors' \subseteq Sources
        /\ cur' \in Sources \cup {NoSource} /\ interrupted' \in BOOLEAN /\ dry' \in BOOLEAN
    BY DEF TypeInv, TypeOK
  <1>3. "failed" \in Steps \ {"announce", "attempt", "record"}
    BY DEF Steps
  <1> HIDE DEF Save
  <1> QED BY <1>1, <1>2, <1>3, TypeSave DEF Raise

LEMMA TypeSignal ==
  ASSUME TypeInv, Signal
  PROVE  TypeInv'
  <1> USE DEF TypeInv, TypeOK, CurKnown
  <1>1. [state EXCEPT !.status = "interrupted"] \in RunState
    BY RunStateUpdates DEF RunStatus
  <1>2. state' \in RunState /\ run' \in RunState \cup {NoRun, Unreadable}
    BY <1>1 DEF Signal
  <1>3. signals' \in 0 .. MaxSignals
    BY ConstantsAssumption DEF ConstantsAssumption, Signal
  <1>4. /\ io' \in Io /\ interrupted' \in BOOLEAN
        /\ io = "none" => io' = "none"
    BY DEF Signal, Io
  <1>5. UNCHANGED <<archived, temp, step, descriptors, cur, dry, faults, kills>>
    BY DEF Signal
  <1> QED BY <1>2, <1>3, <1>4, <1>5

LEMMA TypeKill ==
  ASSUME TypeInv, Kill
  PROVE  TypeInv'
  <1>1. kills' \in 0 .. MaxKills
    BY ConstantsAssumption DEF ConstantsAssumption, Kill, TypeInv, TypeOK
  <1>2. Gone /\ UNCHANGED <<run, archived, faults, signals>>
    BY DEF Kill
  <1> QED BY <1>1, <1>2, TypeGone DEF TypeInv, TypeOK

LEMMA TypeStep == TypeInv /\ [Next]_vars => TypeInv'
  <1> SUFFICES ASSUME TypeInv, [Next]_vars PROVE TypeInv'
    OBVIOUS
  <1> USE DEF TypeInv, TypeOK
  <1> DEFINE Quiet == Steps \ {"announce", "attempt", "record"}
  <1>0. {"off", "discover", "discovering", "plan", "dry", "capture", "returned",
         "failed", "exit"} \subseteq Quiet
    BY DEF Steps
  <1>1. CASE Start
    <2>1. run # NoRun => [run EXCEPT !.status = "running"] \in RunState
      BY <1>1, RunStateUpdates DEF Start, RunStatus
    <2>2. PICK x \in RunState : Save(x, "discover")
      BY <1>1, <2>1, ConstantRecords DEF Start
    <2>3. dry' \in BOOLEAN /\ UNCHANGED <<archived, descriptors, cur, interrupted, budget>>
      BY <1>1, ConstantsAssumption DEF ConstantsAssumption, Start
    <2> HIDE DEF Save
    <2> QED BY <1>0, <2>2, <2>3, TypeSave
  <1>2. CASE Replace
    BY <1>2 DEF Replace, Io, CurKnown
  <1>3. CASE Saved
    BY <1>3 DEF Saved, Io, CurKnown
  <1>4. CASE SaveRaises
    <2>1. CASE Raise /\ UNCHANGED locals
      BY <1>4, <2>1, TypeRaise DEF SaveRaises
    <2>2. CASE step = "failed" /\ io' = "none" /\ UNCHANGED <<run, state, temp, step, locals>>
      BY <1>4, <2>2 DEF SaveRaises, Io, CurKnown
    <2>3. CASE Gone /\ UNCHANGED run
      BY <1>4, <2>3, TypeGone DEF SaveRaises
    <2> QED BY <1>4, <2>1, <2>2, <2>3 DEF SaveRaises
  <1>5. CASE Discover
    <2>1. CASE state.complete
      BY <1>5, <2>1 DEF Discover, Steps, CurKnown, Records
    <2>2. CASE ~state.complete
      <3>1. [state EXCEPT !.status = "discovering"] \in RunState
        BY RunStateUpdates DEF RunStatus
      <3>2. Save([state EXCEPT !.status = "discovering"], "discovering")
            /\ UNCHANGED <<archived, locals, budget>>
        BY <1>5, <2>2 DEF Discover
      <3> HIDE DEF Save
      <3> QED BY <1>0, <3>1, <3>2, TypeSave
    <2> QED BY <2>1, <2>2
  <1>6. CASE \E D \in SUBSET Sources, complete \in BOOLEAN : Discovered(D, complete)
    <2>1. PICK D \in SUBSET Sources, complete \in BOOLEAN : Discovered(D, complete)
      BY <1>6
    <2>2. [state EXCEPT !.found = D, !.complete = complete] \in RunState
      BY RunStateUpdates
    <2>3. Save([state EXCEPT !.found = D, !.complete = complete], "plan")
          /\ descriptors' = D /\ UNCHANGED <<archived, cur, interrupted, dry, budget>>
      BY <2>1 DEF Discovered
    <2> HIDE DEF Save
    <2> QED BY <1>0, <2>2, <2>3, TypeSave
  <1>7. CASE InterruptedBeforePlan
    BY <1>7 DEF InterruptedBeforePlan, Steps, CurKnown
  <1>8. CASE Plan
    <2> DEFINE f == [s \in Sources |-> IF s \in descriptors THEN Planned ELSE Unplanned]
    <2>1. f \in [Sources -> Item]
      BY ConstantRecords
    <2>2. [state EXCEPT !.status = "running", !.items = f] \in RunState
      BY <2>1, RunStateUpdates DEF RunStatus
    <2>3. Save([state EXCEPT !.status = "running", !.items = f],
               IF dry THEN "dry" ELSE "capture")
          /\ UNCHANGED <<archived, locals, budget>>
      BY <1>8 DEF Plan
    <2>4. (IF dry THEN "dry" ELSE "capture") \in Quiet
      BY <1>0
    <2> HIDE DEF Save, f
    <2> QED BY <2>2, <2>3, <2>4, TypeSave
  <1>9. CASE DryRunComplete
    <2>1. [state EXCEPT !.status = "complete"] \in RunState
      BY RunStateUpdates DEF RunStatus
    <2>2. Save([state EXCEPT !.status = "complete"], "returned")
          /\ UNCHANGED <<archived, locals, budget>>
      BY <1>9 DEF DryRunComplete
    <2> HIDE DEF Save
    <2> QED BY <1>0, <2>1, <2>2, TypeSave
  <1>10. CASE \E s \in Sources : StartItem(s)
    <2>1. PICK s \in Sources : StartItem(s)
      BY <1>10
    <2>2. [state EXCEPT !.items[s].status = "capturing"] \in RunState
      BY RunStateUpdates DEF ItemStatus
    <2> QED BY <2>1, <2>2 DEF StartItem, Steps, CurKnown
  <1>11. CASE Announce
    BY <1>11 DEF Announce, Steps, CurKnown
  <1>12. CASE Attempt
    BY <1>12, TypeAttempt
  <1>13. CASE Record
    <2>1. CASE state.items[cur].status = "capturing"
      BY <1>13, <2>1 DEF Record, Steps, CurKnown
    <2>2. CASE state.items[cur].status # "capturing"
      <3>1. Save(state, "capture") /\ cur' = NoSource
            /\ UNCHANGED <<archived, descriptors, interrupted, dry, budget>>
        BY <1>13, <2>2 DEF Record
      <3> HIDE DEF Save
      <3> QED BY <1>0, <3>1, TypeSave
    <2> QED BY <2>1, <2>2
  <1>14. CASE Finalize
    <2>1. PICK st \in RunStatus : Save([state EXCEPT !.status = st], "returned")
      BY <1>14 DEF Finalize, RunStatus
    <2>2. [state EXCEPT !.status = st] \in RunState
      BY RunStateUpdates
    <2>3. UNCHANGED <<archived, locals, budget>>
      BY <1>14 DEF Finalize
    <2> HIDE DEF Save
    <2> QED BY <1>0, <2>1, <2>2, <2>3, TypeSave
  <1>15. CASE Leave
    <2>1. CASE state.status \in Final
      BY <1>15, <2>1, TypeGone DEF Leave
    <2>2. CASE state.status \notin Final
      <3>1. [state EXCEPT !.status = "interrupted"] \in RunState
        BY RunStateUpdates DEF RunStatus
      <3>2. PICK x \in RunState : Save(x, "exit") /\ UNCHANGED <<archived, locals, budget>>
        BY <1>15, <2>2, <3>1 DEF Leave
      <3> HIDE DEF Save
      <3> QED BY <1>0, <3>2, TypeSave
    <2> QED BY <2>1, <2>2
  <1>16. CASE Exit
    BY <1>16, TypeGone DEF Exit
  <1>17. CASE DiscoveryFails
    BY <1>17, TypeFault, TypeRaise DEF DiscoveryFails
  <1>18. CASE EventFails
    BY <1>18, TypeFault, TypeRaise DEF EventFails
  <1>19. CASE SaveFails
    <2>1. faults' \in 0 .. MaxFaults /\ UNCHANGED <<signals, kills>>
      BY <1>19, TypeFault DEF SaveFails
    <2> QED BY <1>19, <2>1 DEF SaveFails, Io, CurKnown
  <1>20. CASE Signal
    BY <1>20, TypeSignal
  <1>21. CASE Kill
    BY <1>21, TypeKill
  <1>22. CASE UNCHANGED vars
    BY <1>22 DEF vars, CurKnown
  <1> QED
    BY <1>1, <1>2, <1>3, <1>4, <1>5, <1>6, <1>7, <1>8, <1>9, <1>10, <1>11, <1>12,
       <1>13, <1>14, <1>15, <1>16, <1>17, <1>18, <1>19, <1>20, <1>21, <1>22
    DEF Next, Work

(* The state of a run stays well formed: in particular no item is retried  *)
(* more than max_retries times.                                            *)
THEOREM TypeCorrect == Spec => []TypeOK
  <1>1. TypeInv => TypeOK
    BY DEF TypeInv
  <1> QED BY <1>1, TypeInit, TypeStep, PTL DEF Spec
-----------------------------------------------------------------------------
(* The statuses whose meaning Accounted states. *)
Successes == {"complete", "complete-with-failures"}

(* What is true of the three copies of the state. *)
CopiesAccounted ==
  /\ Accounted(state)
  /\ Accounted(temp)
  /\ Readable => Accounted(run)

(* While sources are captured the state does not say that the run is over, *)
(* and only the current source is being captured; a dry run captures none. *)
Underway ==
  /\ step \in {"capture", "announce", "attempt", "record"} =>
       /\ state.status \notin Successes
       /\ \A s \in Sources :
            state.items[s].status = "capturing" => s = cur /\ step # "capture"
  /\ step = "dry" =>
       \A s \in Sources : state.items[s].status \in {"absent", "planned"}

AccountInv == CopiesAccounted /\ Underway

LEMMA UnfinishedAccounted ==
  ASSUME NEW x, x.status \notin Successes
  PROVE  Accounted(x)
  BY DEF Accounted, Successes

LEMMA StatusChange ==
  ASSUME NEW x \in RunState, NEW st \in RunStatus
  PROVE  /\ [x EXCEPT !.status = st].status = st
         /\ [x EXCEPT !.status = st].items = x.items
  BY DEF RunState

LEMMA AccountInit == Init => AccountInv
  <1> SUFFICES ASSUME Init PROVE AccountInv
    OBVIOUS
  <1>1. InitialState.status \notin Successes
    BY DEF InitialState, Successes
  <1>2. Accounted(state) /\ Accounted(temp)
    BY <1>1, UnfinishedAccounted DEF Init
  <1>3. ~Readable
    BY ConstantsAssumption DEF ConstantsAssumption, Init, Readable
  <1>4. Underway
    BY DEF Init, Underway
  <1> QED BY <1>2, <1>3, <1>4 DEF AccountInv, CopiesAccounted

(* The process ends and leaves run.json as it is. *)
LEMMA AccountGone ==
  ASSUME AccountInv, Gone, UNCHANGED run
  PROVE  AccountInv'
  <1>1. InitialState.status \notin Successes
    BY DEF InitialState, Successes
  <1>2. Accounted(InitialState)
    BY <1>1, UnfinishedAccounted
  <1>3. CopiesAccounted'
    BY <1>2 DEF Gone, AccountInv, CopiesAccounted, Readable, Accounted, Failed
  <1>4. Underway'
    BY DEF Gone, Underway
  <1> QED BY <1>3, <1>4 DEF AccountInv

(* A save of an accounted state outside the capture loop. *)
LEMMA AccountSave ==
  ASSUME AccountInv, NEW x, Accounted(x), NEW next, Save(x, next),
         next \notin {"dry", "capture", "announce", "attempt", "record"}
  PROVE  AccountInv'
  <1>1. CopiesAccounted'
    BY DEF AccountInv, CopiesAccounted, Readable, Accounted, Failed
  <1>2. Underway'
    BY DEF Underway
  <1> QED BY <1>1, <1>2 DEF AccountInv

LEMMA AccountRaise ==
  ASSUME TypeInv, AccountInv, Raise
  PROVE  AccountInv'
  <1>1. Accounted([state EXCEPT !.status = "failed"])
    BY StatusChange, UnfinishedAccounted DEF TypeInv, TypeOK, RunStatus, Successes
  <1> HIDE DEF Save
  <1> QED BY <1>1, AccountSave DEF Raise

(* Neither the state nor run.json changes, and the runner goes on to a     *)
(* step that asks nothing of the state.                                    *)
LEMMA AccountMove ==
  ASSUME AccountInv, UNCHANGED <<state, temp, run, cur>>,
         step' = step \/ step' \notin {"dry", "capture", "announce", "attempt", "record"}
  PROVE  AccountInv'
  BY DEF AccountInv, CopiesAccounted, Underway, Readable, Accounted, Failed

LEMMA AccountSignal ==
  ASSUME TypeInv, AccountInv, Signal
  PROVE  AccountInv'
  <1> DEFINE x == [state EXCEPT !.status = "interrupted"]
  <1>1. x.status = "interrupted" /\ x.items = state.items
    BY StatusChange DEF TypeInv, TypeOK, RunStatus
  <1>2. Accounted(x)
    BY <1>1, UnfinishedAccounted DEF Successes
  <1>3. state' = x /\ (run' = x \/ run' = Unreadable) /\ UNCHANGED <<temp, step, cur>>
    BY DEF Signal
  <1>4. Unreadable \notin RunState
    BY ConstantsAssumption DEF ConstantsAssumption
  <1> HIDE DEF x
  <1>5. CopiesAccounted'
    BY <1>2, <1>3, <1>4 DEF AccountInv, CopiesAccounted, Readable, Accounted, Failed
  <1>6. Underway'
    BY <1>1, <1>3 DEF AccountInv, Underway, Successes
  <1> QED BY <1>5, <1>6 DEF AccountInv

(* A step of the capture loop that saves nothing: one item changes. *)
LEMMA AccountItem ==
  ASSUME TypeInv, AccountInv, NEW s \in Sources, NEW item,
         step \in {"capture", "announce", "attempt", "record"},
         state' = [state EXCEPT !.items[s] = item],
         UNCHANGED <<run, temp>>,
         step' \in {"announce", "attempt", "record"},
         cur' = s, cur = s \/ step = "capture"
  PROVE  AccountInv'
  <1>1. state' \in [status : RunStatus, found : SUBSET Sources, complete : BOOLEAN,
                    items : [Sources -> {state.items[t] : t \in Sources} \cup {item}]]
        /\ state'.status = state.status
    BY DEF TypeInv, TypeOK, RunState
  <1>2. \A t \in Sources : t # s => state'.items[t] = state.items[t]
    BY DEF TypeInv, TypeOK, RunState
  <1>3. state.status \notin Successes
    BY DEF AccountInv, Underway
  <1>4. CopiesAccounted'
    BY <1>1, <1>3 DEF AccountInv, CopiesAccounted, Readable, Accounted, Failed, Successes
  <1>5. Underway'
    BY <1>1, <1>2, <1>3 DEF AccountInv, Underway
  <1> QED BY <1>4, <1>5 DEF AccountInv

LEMMA AccountAttempt ==
  ASSUME TypeInv, AccountInv, Attempt
  PROVE  AccountInv'
  <1>1. cur \in Sources /\ step = "attempt"
    BY DEF Attempt, CaptureSucceeds, CaptureFails, CaptureRetried, TypeInv, CurKnown
  <1>2. step' = "record" /\ UNCHANGED <<run, temp, cur>>
    BY DEF Attempt, CaptureSucceeds, CaptureFails, CaptureRetried
  <1>3. \E item : SetItem(item)
    BY DEF Attempt, CaptureSucceeds, CaptureFails, CaptureRetried
  <1> QED BY <1>1, <1>2, <1>3, AccountItem DEF SetItem

(* What Finalize writes accounts for every source: a run that was not      *)
(* interrupted has no source waiting, and none is being captured.          *)
LEMMA AccountFinalize ==
  ASSUME TypeInv, AccountInv, Finalize
  PROVE  AccountInv'
  <1> DEFINE st == IF interrupted THEN "interrupted"
                   ELSE IF Failed(state) # {} THEN "complete-with-failures"
                   ELSE "complete"
             x == [state EXCEPT !.status = st]
  <1>1. x.status = st /\ x.items = state.items
    BY StatusChange DEF TypeInv, TypeOK, RunStatus
  <1>2. \A s \in Sources : state.items[s].status \in ItemStatus \ {"capturing"}
    <2>1. \A s \in Sources : state.items[s].status \in ItemStatus
      BY DEF TypeInv, TypeOK, RunState, Item
    <2>2. \A s \in Sources : state.items[s].status # "capturing"
      <3>1. step = "capture"
        BY DEF Finalize
      <3> QED BY <3>1 DEF AccountInv, Underway
    <2> QED BY <2>1, <2>2
  <1>3. Failed(x) = Failed(state)
    BY <1>1 DEF Failed
  <1>4. Accounted(x)
    <2>1. CASE interrupted
      <3>1. st = "interrupted"
        BY <2>1
      <3> HIDE DEF st, x
      <3> QED BY <1>1, <3>1, UnfinishedAccounted DEF Successes
    <2>2. CASE ~interrupted
      <3>1. \A s \in Sources : state.items[s].status # "planned"
        BY <2>2 DEF Finalize, Waiting
      <3>2. st = "complete" => \A s \in Sources : state.items[s].status # "failed-terminal"
        <4>1. st = "complete" => Failed(state) = {}
          BY <2>2
        <4> QED BY <4>1 DEF Failed
      <3>3. st = "complete-with-failures" => Failed(state) # {}
        BY <2>2
      <3> HIDE DEF st, x
      <3> QED BY <1>1, <1>2, <1>3, <3>1, <3>2, <3>3 DEF Accounted, ItemStatus
    <2> QED BY <2>1, <2>2
  <1>5. Save(x, "returned")
    BY DEF Finalize
  <1> HIDE DEF x, Save
  <1> QED BY <1>4, <1>5, AccountSave

LEMMA AccountPlan ==
  ASSUME TypeInv, AccountInv, Plan
  PROVE  AccountInv'
  <1> DEFINE f == [s \in Sources |-> IF s \in descriptors THEN Planned ELSE Unplanned]
             x == [state EXCEPT !.status = "running", !.items = f]
  <1>1. x.status = "running" /\ x.items = f
    BY DEF TypeInv, TypeOK, RunState
  <1>2. \A s \in Sources : f[s].status \in {"absent", "planned"}
    BY DEF Planned, Unplanned
  <1>3. state' = x /\ temp' = x /\ UNCHANGED run /\ step' \in {"dry", "capture"}
    BY DEF Plan
  <1> HIDE DEF x, f
  <1>4. Accounted(x)
    BY <1>1, UnfinishedAccounted DEF Successes
  <1>5. CopiesAccounted'
    BY <1>3, <1>4 DEF AccountInv, CopiesAccounted, Readable, Accounted, Failed
  <1>6. Underway'
    BY <1>1, <1>2, <1>3 DEF Underway, Successes
  <1> QED BY <1>5, <1>6 DEF AccountInv

LEMMA AccountStep == TypeInv /\ AccountInv /\ [Next]_vars => AccountInv'
  <1> SUFFICES ASSUME TypeInv, AccountInv, [Next]_vars PROVE AccountInv'
    OBVIOUS
  <1> USE StatusChange, UnfinishedAccounted
  <1>1. CASE Start
    <2>1. run = NoRun \/ run \in RunState
      BY <1>1 DEF Start, TypeInv, TypeOK
    <2>2. InitialState.status \notin Successes
      BY DEF InitialState, Successes
    <2>3. run \in RunState => Accounted([run EXCEPT !.status = "running"])
      BY DEF RunStatus, Successes
    <2>4. PICK x : Accounted(x) /\ Save(x, "discover")
      BY <1>1, <2>1, <2>2, <2>3 DEF Start
    <2> HIDE DEF Save
    <2> QED BY <2>4, AccountSave
  <1>2. CASE Replace
    <2>1. run' = temp /\ UNCHANGED <<state, temp, step, cur>>
      BY <1>2 DEF Replace
    <2> QED BY <2>1 DEF AccountInv, CopiesAccounted, Underway, Readable, Accounted, Failed
  <1>3. CASE Saved
    BY <1>3, AccountMove DEF Saved
  <1>4. CASE SaveRaises
    <2>1. CASE Raise
      BY <2>1, AccountRaise
    <2>2. CASE UNCHANGED <<run, state, temp, step, locals>>
      BY <2>2, AccountMove
    <2>3. CASE Gone /\ UNCHANGED run
      BY <2>3, AccountGone
    <2> QED BY <1>4, <2>1, <2>2, <2>3 DEF SaveRaises
  <1>5. CASE Discover
    <2>1. CASE state.complete
      BY <1>5, <2>1, AccountMove DEF Discover
    <2>2. CASE ~state.complete
      <3>1. Accounted([state EXCEPT !.status = "discovering"])
        BY DEF TypeInv, TypeOK, RunStatus, Successes
      <3>2. Save([state EXCEPT !.status = "discovering"], "discovering")
        BY <1>5, <2>2 DEF Discover
      <3> HIDE DEF Save
      <3> QED BY <3>1, <3>2, AccountSave
    <2> QED BY <2>1, <2>2
  <1>6. CASE \E D \in SUBSET Sources, complete \in BOOLEAN : Discovered(D, complete)
    <2>1. PICK D \in SUBSET Sources, complete \in BOOLEAN : Discovered(D, complete)
      BY <1>6
    <2> DEFINE x == [state EXCEPT !.found = D, !.complete = complete]
    <2>2. x.status = state.status /\ x.items = state.items
      BY DEF TypeInv, TypeOK, RunState
    <2>3. Save(x, "plan")
      BY <2>1 DEF Discovered
    <2> HIDE DEF x, Save
    <2>4. Accounted(x)
      BY <2>2 DEF AccountInv, CopiesAccounted, Accounted, Failed
    <2> QED BY <2>3, <2>4, AccountSave
  <1>7. CASE InterruptedBeforePlan
    BY <1>7, AccountMove DEF InterruptedBeforePlan
  <1>8. CASE Plan
    BY <1>8, AccountPlan
  <1>9. CASE DryRunComplete
    <2> DEFINE x == [state EXCEPT !.status = "complete"]
    <2>1. x.status = "complete" /\ x.items = state.items
      BY DEF TypeInv, TypeOK, RunStatus
    <2>2. Save(x, "returned")
      BY <1>9 DEF DryRunComplete
    <2>3. \A s \in Sources : state.items[s].status \in {"absent", "planned"}
      BY <1>9 DEF DryRunComplete, AccountInv, Underway
    <2> HIDE DEF x, Save
    <2>4. Accounted(x)
      BY <2>1, <2>3 DEF Accounted
    <2> QED BY <2>2, <2>4, AccountSave
  <1>10. CASE \E s \in Sources : StartItem(s)
    <2>1. PICK s \in Sources : StartItem(s)
      BY <1>10
    <2>2. state' = [state EXCEPT !.items[s] = [state.items[s] EXCEPT !.status = "capturing"]]
      BY <2>1 DEF StartItem, TypeInv, TypeOK, RunState
    <2> QED BY <2>1, <2>2, AccountItem DEF StartItem
  <1>11. CASE Announce
    BY <1>11 DEF Announce, AccountInv, CopiesAccounted, Underway, Readable, Accounted, Failed
  <1>12. CASE Attempt
    BY <1>12, AccountAttempt
  <1>13. CASE Record
    <2>1. UNCHANGED <<state, run>> /\ temp' \in {state, temp}
      BY <1>13 DEF Record
    <2>2. CopiesAccounted'
      BY <2>1 DEF AccountInv, CopiesAccounted, Readable, Accounted, Failed
    <2>3. Underway'
      BY <1>13 DEF Record, AccountInv, Underway
    <2> QED BY <2>2, <2>3 DEF AccountInv
  <1>14. CASE Finalize
    BY <1>14, AccountFinalize
  <1>15. CASE Leave
    <2>1. CASE state.status \in Final
      BY <1>15, <2>1, AccountGone DEF Leave
    <2>2. CASE state.status \notin Final
      <3>1. Accounted([state EXCEPT !.status = "interrupted"])
        BY DEF TypeInv, TypeOK, RunStatus, Successes
      <3>2. PICK x : Accounted(x) /\ Save(x, "exit")
        BY <1>15, <2>2, <3>1 DEF Leave, AccountInv, CopiesAccounted
      <3> HIDE DEF Save
      <3> QED BY <3>2, AccountSave
    <2> QED BY <2>1, <2>2
  <1>16. CASE Exit
    BY <1>16, AccountGone DEF Exit
  <1>17. CASE DiscoveryFails
    BY <1>17, AccountRaise DEF DiscoveryFails
  <1>18. CASE EventFails
    BY <1>18, AccountRaise DEF EventFails
  <1>19. CASE SaveFails
    BY <1>19, AccountMove DEF SaveFails
  <1>20. CASE Signal
    BY <1>20, AccountSignal
  <1>21. CASE Kill
    BY <1>21, AccountGone DEF Kill
  <1>22. CASE UNCHANGED vars
    BY <1>22, AccountMove DEF vars
  <1> QED
    BY <1>1, <1>2, <1>3, <1>4, <1>5, <1>6, <1>7, <1>8, <1>9, <1>10, <1>11, <1>12,
       <1>13, <1>14, <1>15, <1>16, <1>17, <1>18, <1>19, <1>20, <1>21, <1>22
    DEF Next, Work

(* What --resume no longer offers has nothing left to resume.              *)
THEOREM FinishedAccounted == Spec => []FinishedRunsAccounted
  <1>1. AccountInv => FinishedRunsAccounted
    BY DEF AccountInv, CopiesAccounted, FinishedRunsAccounted
  <1> QED BY <1>1, TypeInit, TypeStep, AccountInit, AccountStep, PTL DEF Spec
-----------------------------------------------------------------------------
(* No copy of the state reports a source captured that has no archive. *)
ArchiveInv ==
  /\ Settled(state) \subseteq archived
  /\ Settled(temp) \subseteq archived
  /\ Readable => Settled(run) \subseteq archived

(* Archives are never removed, and every copy of the state is an older     *)
(* copy, or one that reports no more captures than are archived.           *)
LEMMA ArchiveKept ==
  ASSUME ArchiveInv, archived \subseteq archived',
         Settled(state') \subseteq archived',
         temp' \in {temp, state, state'},
         run' \in {run, temp, state'} \/ ~Readable'
  PROVE  ArchiveInv'
  <1>1. (Settled(state) \subseteq archived)'
    BY DEF Settled
  <1>2. (Settled(temp) \subseteq archived)'
    BY DEF ArchiveInv, Settled
  <1>3. (Readable => Settled(run) \subseteq archived)'
    BY DEF ArchiveInv, Settled, Readable
  <1> QED BY <1>1, <1>2, <1>3 DEF ArchiveInv

LEMMA ArchiveStep == TypeInv /\ ArchiveInv /\ [Next]_vars => ArchiveInv'
  <1> SUFFICES ASSUME TypeInv, ArchiveInv, [Next]_vars PROVE ArchiveInv'
    OBVIOUS
  <1>0. \A x, y : y.items = x.items => Settled(y) = Settled(x)
    BY DEF Settled
  <1>1. Settled(InitialState) = {}
    BY DEF Settled, InitialState, Unplanned
  <1>2. \A st \in RunStatus : Settled([state EXCEPT !.status = st]) \subseteq archived
    BY <1>0, StatusChange DEF ArchiveInv, TypeInv, TypeOK
  <1>3. \A x \in RunState, st \in RunStatus :
          Settled([x EXCEPT !.status = st]) = Settled(x)
    BY <1>0, StatusChange
  <1>4. CASE Gone /\ UNCHANGED disk
    BY <1>1, <1>4 DEF Gone, ArchiveInv, Settled, Readable
  <1>5. CASE Raise /\ UNCHANGED archived
    <2>1. "failed" \in RunStatus
      BY DEF RunStatus
    <2> QED BY <1>2, <1>5, <2>1, ArchiveKept DEF Raise
  <1>6. CASE Start
    <2>1. run \in RunState => Settled([run EXCEPT !.status = "running"]) \subseteq archived
      BY <1>3 DEF ArchiveInv, Readable, RunStatus
    <2>2. Settled(state') \subseteq archived
      BY <1>1, <1>6, <2>1 DEF Start, TypeInv, TypeOK
    <2>3. temp' = state' /\ UNCHANGED disk
      BY <1>6 DEF Start
    <2> QED BY <2>2, <2>3, ArchiveKept
  <1>7. CASE Replace
    BY <1>7, ArchiveKept DEF Replace, ArchiveInv
  <1>8. CASE Saved
    BY <1>8, ArchiveKept DEF Saved, ArchiveInv
  <1>9. CASE SaveRaises
    BY <1>4, <1>5, <1>9, ArchiveKept DEF SaveRaises, ArchiveInv
  <1>10. CASE Discover
    <2>1. state' = state \/ state' = [state EXCEPT !.status = "discovering"]
      BY <1>10 DEF Discover
    <2>2. Settled(state') \subseteq archived
      BY <1>2, <2>1 DEF ArchiveInv, RunStatus
    <2>3. temp' \in {temp, state'} /\ UNCHANGED disk
      BY <1>10 DEF Discover
    <2> QED BY <2>2, <2>3, ArchiveKept
  <1>11. CASE \E D \in SUBSET Sources, complete \in BOOLEAN : Discovered(D, complete)
    <2>1. state'.items = state.items
      BY <1>11 DEF Discovered, TypeInv, TypeOK, RunState
    <2>2. temp' = state' /\ UNCHANGED disk
      BY <1>11 DEF Discovered
    <2>3. Settled(state') \subseteq archived
      BY <1>0, <2>1 DEF ArchiveInv
    <2> QED BY <2>2, <2>3, ArchiveKept
  <1>12. CASE InterruptedBeforePlan
    BY <1>12, ArchiveKept DEF InterruptedBeforePlan, ArchiveInv
  <1>13. CASE Plan
    <2>1. \A s \in Sources : state'.items[s].status \in {"absent", "planned"}
      BY <1>13 DEF Plan, TypeInv, TypeOK, RunState, Planned, Unplanned
    <2>2. Settled(state') = {}
      BY <2>1 DEF Settled
    <2>3. temp' = state' /\ UNCHANGED disk
      BY <1>13 DEF Plan
    <2> QED BY <2>2, <2>3, ArchiveKept
  <1>14. CASE DryRunComplete
    <2>1. Settled(state') \subseteq archived /\ temp' = state' /\ UNCHANGED disk
      BY <1>2, <1>14 DEF DryRunComplete, RunStatus
    <2> QED BY <2>1, ArchiveKept
  <1>15. CASE \E s \in Sources : StartItem(s)
    <2>1. PICK s \in Sources : StartItem(s)
      BY <1>15
    <2>2. \A t \in Sources : state'.items[t].status \in {state.items[t].status, "capturing"}
      BY <2>1 DEF StartItem, TypeInv, TypeOK, RunState, Item
    <2>3. Settled(state') \subseteq Settled(state)
      BY <2>2 DEF Settled
    <2>4. UNCHANGED <<temp, run, archived>>
      BY <2>1 DEF StartItem
    <2> QED BY <2>3, <2>4, ArchiveKept DEF ArchiveInv
  <1>16. CASE Announce
    BY <1>16, ArchiveKept DEF Announce, ArchiveInv
  <1>17. CASE Attempt
    <2>1. cur \in Sources
      BY <1>17 DEF Attempt, CaptureSucceeds, CaptureFails, CaptureRetried, TypeInv, CurKnown
    <2>2. \A t \in Sources : t # cur => state'.items[t] = state.items[t]
      BY <1>17, <2>1 DEF Attempt, CaptureSucceeds, CaptureFails, CaptureRetried, SetItem,
                         TypeInv, TypeOK, RunState
    <2>3. cur \in archived' \/ state'.items[cur].status \in {state.items[cur].status, "failed-terminal"}
      <3>1. state.items[cur] \in Item
        BY <2>1, RunStateFields DEF TypeInv, TypeOK
      <3>2. CASE \E st \in {"complete", "unchanged"} : CaptureSucceeds(st)
        BY <2>1, <3>2 DEF CaptureSucceeds
      <3>3. CASE CaptureFails
        <4>1. [state.items[cur] EXCEPT !.status = "failed-terminal"].status = "failed-terminal"
          BY <3>1 DEF Item
        <4> QED BY <2>1, <3>3, <4>1 DEF CaptureFails, SetItem, TypeInv, TypeOK, RunState
      <3>4. CASE CaptureRetried
        <4>1. [state.items[cur] EXCEPT !.retries = @ + 1].status = state.items[cur].status
          BY <3>1 DEF Item
        <4> QED BY <2>1, <3>4, <4>1 DEF CaptureRetried, SetItem, TypeInv, TypeOK, RunState
      <3> QED BY <1>17, <3>2, <3>3, <3>4 DEF Attempt
    <2>4. archived \subseteq archived' /\ UNCHANGED <<temp, run>>
      BY <1>17 DEF Attempt, CaptureSucceeds, CaptureFails, CaptureRetried
    <2>5. Settled(state') \subseteq archived'
      BY <2>2, <2>3, <2>4 DEF Settled, ArchiveInv
    <2> QED BY <2>4, <2>5, ArchiveKept
  <1>18. CASE Record
    BY <1>18, ArchiveKept DEF Record, ArchiveInv
  <1>19. CASE Finalize
    <2>1. PICK st \in RunStatus : Save([state EXCEPT !.status = st], "returned")
      BY <1>19 DEF Finalize, RunStatus
    <2>2. UNCHANGED archived
      BY <1>19 DEF Finalize
    <2> QED BY <1>2, <2>1, <2>2, ArchiveKept
  <1>20. CASE Leave
    <2>1. CASE state.status \in Final
      BY <1>4, <1>20, <2>1 DEF Leave
    <2>2. CASE state.status \notin Final
      <3>1. state' = state \/ state' = [state EXCEPT !.status = "interrupted"]
        BY <1>20, <2>2 DEF Leave
      <3>2. Settled(state') \subseteq archived
        BY <1>2, <3>1 DEF ArchiveInv, RunStatus
      <3>3. temp' = state' /\ UNCHANGED disk
        BY <1>20, <2>2 DEF Leave
      <3> QED BY <3>2, <3>3, ArchiveKept
    <2> QED BY <2>1, <2>2
  <1>21. CASE Exit
    BY <1>4, <1>21 DEF Exit
  <1>22. CASE DiscoveryFails
    BY <1>5, <1>22 DEF DiscoveryFails
  <1>23. CASE EventFails
    BY <1>5, <1>23 DEF EventFails
  <1>24. CASE SaveFails
    BY <1>24, ArchiveKept DEF SaveFails, ArchiveInv
  <1>25. CASE Signal
    <2>1. Unreadable \notin RunState
      BY ConstantsAssumption DEF ConstantsAssumption
    <2>2. state' = [state EXCEPT !.status = "interrupted"] /\ UNCHANGED <<temp, archived>>
      BY <1>25 DEF Signal
    <2>3. run' = state' \/ run' = Unreadable
      BY <1>25 DEF Signal
    <2>4. Settled(state') \subseteq archived
      BY <1>2, <2>2 DEF RunStatus
    <2>5. run' = state' \/ ~Readable'
      BY <2>1, <2>3 DEF Readable
    <2> QED BY <2>2, <2>4, <2>5, ArchiveKept
  <1>26. CASE Kill
    BY <1>4, <1>26 DEF Kill
  <1>27. CASE UNCHANGED vars
    BY <1>27, ArchiveKept DEF vars, ArchiveInv
  <1> QED
    BY <1>6, <1>7, <1>8, <1>9, <1>10, <1>11, <1>12, <1>13, <1>14, <1>15, <1>16, <1>17,
       <1>18, <1>19, <1>20, <1>21, <1>22, <1>23, <1>24, <1>25, <1>26, <1>27
    DEF Next, Work

LEMMA ArchiveInit == Init => ArchiveInv
  <1>1. Settled(InitialState) = {}
    BY DEF Settled, InitialState, Unplanned
  <1>2. NoRun \notin RunState
    BY ConstantsAssumption DEF ConstantsAssumption
  <1> QED BY <1>1, <1>2 DEF Init, ArchiveInv, Readable

(* run.json never reports a source captured that has no archive. *)
THEOREM CapturesAlwaysArchived == Spec => []CapturesArchived
  <1>1. ArchiveInv => CapturesArchived
    BY DEF ArchiveInv, CapturesArchived
  <1> QED BY <1>1, TypeInit, TypeStep, ArchiveInit, ArchiveStep, PTL DEF Spec
-----------------------------------------------------------------------------
(* Kills and errors leave run.json a document that can be read: only the   *)
(* SIGINT handler can tear it, for only it writes through the temporary    *)
(* file of a save that is still open.                                      *)
THEOREM StateFileAlwaysReadable == Spec => []StateFileReadable
  <1>1. Init => StateFileReadable
    BY ConstantsAssumption DEF ConstantsAssumption, Init, StateFileReadable
  <1>2. TypeInv /\ StateFileReadable /\ [Next]_vars => StateFileReadable'
    <2> SUFFICES ASSUME TypeInv, StateFileReadable, [Next]_vars PROVE StateFileReadable'
      OBVIOUS
    <2>1. CASE Replace
      <3>1. run' \in RunState
        BY <2>1 DEF Replace, TypeInv, TypeOK
      <3> QED BY <3>1, ConstantsAssumption DEF ConstantsAssumption, StateFileReadable
    <2>2. CASE Signal
      <3>1. signals \in Nat /\ signals' = signals + 1
        BY <2>2, ConstantsAssumption DEF ConstantsAssumption, Signal, TypeInv, TypeOK
      <3>2. signals' # 0
        BY <3>1
      <3> QED BY <3>2 DEF StateFileReadable
    <2>3. CASE UNCHANGED <<run, signals>>
      BY <2>3 DEF StateFileReadable
    <2>4. Replace \/ Signal \/ UNCHANGED <<run, signals>>
      BY DEF vars, Next, Work, Start, Saved, SaveRaises, Raise, Discover, Discovered,
             InterruptedBeforePlan, Plan, DryRunComplete, StartItem, Announce, Attempt,
             CaptureSucceeds, CaptureFails, CaptureRetried, Record, Finalize, Leave, Exit,
             Fault, DiscoveryFails, EventFails, SaveFails, Kill
    <2> QED BY <2>1, <2>2, <2>3, <2>4
  <1> QED BY <1>1, <1>2, TypeInit, TypeStep, PTL DEF Spec
-----------------------------------------------------------------------------
(* The process was never killed, and at most one thing went wrong. *)
OneTrouble == kills = 0 /\ faults + signals <= 1

(* run.json holds the status in memory. *)
Reached == Readable /\ run.status = state.status

(* Until the run returns, its status is not final. *)
Opening == step \in {"discover", "discovering", "plan"} => state.status \notin Final

(* A run returns finished or interrupted.  It has failed, or saves once    *)
(* more on its way out, only because of the one trouble it had.            *)
WayOut ==
  /\ step = "returned" => state.status \in Final \/ interrupted
  /\ step = "failed" => state.status = "failed"
  /\ step = "exit" => state.status = "interrupted"
  /\ interrupted \/ io = "broken" \/ step \in {"failed", "exit"} => faults + signals = 1
  /\ step \in {"failed", "exit"} => io # "broken"

(* What a save carries reaches run.json, unless the SIGINT handler changed *)
(* the state behind it, and then the run returns to save it once more.     *)
Carried ==
  /\ io = "writing" =>
       \/ temp.status = state.status
       \/ state.status = "interrupted" /\ step # "exit"
  /\ io = "following" =>
       \/ Reached
       \/ state.status = "interrupted" /\ step # "exit"
  /\ io = "none" /\ step \in {"returned", "failed", "exit"} =>
       \/ Reached
       \/ state.status \notin Final /\ step # "exit"

(* A process that ended left the final word in run.json. *)
Ended ==
  step = "off" =>
    /\ io = "none"
    /\ run # NoRun => Readable /\ run.status \in Final \cup {"interrupted"}

ExitInv == OneTrouble => Opening /\ WayOut /\ Carried /\ Ended

LEMMA ExitInit == Init => ExitInv
  <1> SUFFICES ASSUME Init PROVE ExitInv
    OBVIOUS
  <1> QED BY DEF Init, ExitInv, Opening, WayOut, Carried, Ended

(* An error is raised where none was before. *)
LEMMA ExitRaise ==
  ASSUME TypeInv, Raise, OneTrouble' => faults' + signals' = 1
  PROVE  ExitInv'
  <1> DEFINE x == [state EXCEPT !.status = "failed"]
  <1>1. x.status = "failed"
    BY StatusChange DEF TypeInv, TypeOK, RunStatus
  <1>2. Save(x, "failed")
    BY DEF Raise
  <1> HIDE DEF x
  <1> QED BY <1>1, <1>2 DEF ExitInv, Opening, WayOut, Carried, Ended

(* A step of the process that saves nothing and does not end it. *)
LEMMA ExitMove ==
  ASSUME ExitInv, UNCHANGED <<run, io, temp, interrupted, budget>>, io = "none",
         step' \notin {"off", "returned", "failed", "exit"},
         step' \in {"discover", "discovering", "plan"} =>
           step \in {"discover", "discovering", "plan"} /\ UNCHANGED state
  PROVE  ExitInv'
  BY DEF ExitInv, OneTrouble, Opening, WayOut, Carried, Ended

LEMMA ExitStep == TypeInv /\ TypeInv' /\ ExitInv /\ [Next]_vars => ExitInv'
  <1> SUFFICES ASSUME TypeInv, TypeInv', ExitInv, [Next]_vars PROVE ExitInv'
    OBVIOUS
  <1>0. /\ faults \in Nat /\ signals \in Nat /\ kills \in Nat
        /\ faults' \in Nat /\ signals' \in Nat /\ kills' \in Nat
    BY ConstantsAssumption DEF ConstantsAssumption, TypeInv, TypeOK
  <1>00. /\ state \in RunState /\ state.status \in RunStatus
         /\ temp \in RunState
    BY RunStateFields DEF TypeInv, TypeOK
  <1>s. \A st \in RunStatus : [state EXCEPT !.status = st].status = st
    BY <1>00, StatusChange
  <1>1. CASE Start
    <2>1. run # NoRun => run \in RunState
      BY <1>1 DEF Start, TypeInv, TypeOK
    <2>2. PICK x : Save(x, "discover") /\ x.status \notin Final
      <3>1. InitialState.status \notin Final
        BY DEF InitialState, Final
      <3>2. run # NoRun => [run EXCEPT !.status = "running"].status \notin Final
        BY <2>1, StatusChange DEF RunStatus, Final
      <3> QED BY <1>1, <3>1, <3>2 DEF Start
    <2>3. UNCHANGED <<interrupted, budget>> /\ step = "off"
      BY <1>1 DEF Start
    <2> QED BY <2>2, <2>3 DEF ExitInv, OneTrouble, Opening, WayOut, Carried, Ended
  <1>2. CASE Replace
    <2>1. temp \in RunState
      BY <1>00
    <2> QED BY <1>2, <2>1 DEF Replace, ExitInv, OneTrouble, Opening, WayOut, Carried, Ended, Reached, Readable
  <1>3. CASE Saved
    BY <1>3 DEF Saved, ExitInv, OneTrouble, Opening, WayOut, Carried, Ended, Reached, Readable, Final
  <1>4. CASE SaveRaises
    <2>1. UNCHANGED budget /\ io = "broken"
      BY <1>4 DEF SaveRaises
    <2>2. CASE OneTrouble
      <3>1. step \notin {"failed", "exit"} /\ faults + signals = 1
        BY <2>1, <2>2 DEF ExitInv, WayOut
      <3> QED BY <1>4, <2>1, <3>1, ExitRaise DEF SaveRaises
    <2>3. CASE ~OneTrouble
      BY <2>1, <2>3 DEF ExitInv, OneTrouble
    <2> QED BY <2>2, <2>3
  <1>5. CASE Discover
    <2>1. CASE state.complete
      BY <1>5, <2>1, ExitMove DEF Discover
    <2>2. CASE ~state.complete
      <3>1. "discovering" \in RunStatus \ Final
        BY DEF RunStatus, Final
      <3> QED BY <1>5, <1>s, <2>2, <3>1 DEF Discover, ExitInv, OneTrouble, Opening, WayOut, Carried, Ended
    <2> QED BY <2>1, <2>2
  <1>6. CASE \E D \in SUBSET Sources, complete \in BOOLEAN : Discovered(D, complete)
    <2>1. PICK D \in SUBSET Sources, complete \in BOOLEAN : Discovered(D, complete)
      BY <1>6
    <2> DEFINE x == [state EXCEPT !.found = D, !.complete = complete]
    <2>2. x.status = state.status
      BY <1>00 DEF RunState
    <2>3. Save(x, "plan") /\ UNCHANGED <<interrupted, budget>> /\ At("discovering")
      BY <2>1 DEF Discovered
    <2> HIDE DEF x
    <2> QED BY <2>2, <2>3 DEF ExitInv, OneTrouble, Opening, WayOut, Carried, Ended
  <1>7. CASE InterruptedBeforePlan
    BY <1>7 DEF InterruptedBeforePlan, ExitInv, OneTrouble, Opening, WayOut, Carried, Ended
  <1>8. CASE Plan
    BY <1>8 DEF Plan, ExitInv, OneTrouble, Opening, WayOut, Carried, Ended
  <1>9. CASE DryRunComplete
    <2>1. [state EXCEPT !.status = "complete"].status = "complete"
      BY <1>s DEF RunStatus
    <2> QED BY <1>9, <2>1 DEF DryRunComplete, ExitInv, OneTrouble, Opening, WayOut, Carried, Ended, Final
  <1>10. CASE \E s \in Sources : StartItem(s)
    BY <1>10, ExitMove DEF StartItem
  <1>11. CASE Announce
    BY <1>11, ExitMove DEF Announce
  <1>12. CASE Attempt
    <2>1. io = "none" /\ step' = "record" /\ UNCHANGED <<run, io, temp, interrupted, budget>>
      BY <1>12 DEF Attempt, CaptureSucceeds, CaptureFails, CaptureRetried
    <2> QED BY <2>1, ExitMove
  <1>13. CASE Record
    BY <1>13 DEF Record, ExitInv, OneTrouble, Opening, WayOut, Carried, Ended
  <1>14. CASE Finalize
    <2>1. PICK st \in Final \cup {"interrupted"} :
            /\ Save([state EXCEPT !.status = st], "returned")
            /\ st = "interrupted" => interrupted
      BY <1>14 DEF Finalize, Final
    <2>2. [state EXCEPT !.status = st].status = st
      BY <1>s DEF RunStatus, Final
    <2>3. UNCHANGED <<interrupted, budget>> /\ io = "none"
      BY <1>14 DEF Finalize
    <2> QED BY <2>1, <2>2, <2>3 DEF ExitInv, OneTrouble, Opening, WayOut, Carried, Ended
  <1>15. CASE Leave
    <2>1. UNCHANGED budget /\ io = "none" /\ step \in {"returned", "failed"}
      BY <1>15 DEF Leave
    <2>2. CASE state.status \in Final
      <3>1. Gone /\ UNCHANGED run
        BY <1>15, <2>2 DEF Leave
      <3> QED BY <2>1, <2>2, <3>1 DEF Gone, ExitInv, OneTrouble, Opening, WayOut, Carried, Ended, Reached, Readable
    <2>3. CASE state.status \notin Final
      <3>1. OneTrouble => interrupted /\ faults + signals = 1
        BY <2>1, <2>3 DEF ExitInv, WayOut, Final
      <3>2. [state EXCEPT !.status = "interrupted"].status = "interrupted"
        BY <1>s DEF RunStatus
      <3>3. PICK x : Save(x, "exit") /\ (interrupted => x.status = "interrupted")
        BY <1>15, <2>3, <3>2 DEF Leave
      <3>4. UNCHANGED interrupted
        BY <1>15, <2>3 DEF Leave
      <3> QED BY <2>1, <3>1, <3>3, <3>4
              DEF ExitInv, OneTrouble, Opening, WayOut, Carried, Ended
    <2> QED BY <2>2, <2>3
  <1>16. CASE Exit
    BY <1>16 DEF Exit, Gone, ExitInv, OneTrouble, Opening, WayOut, Carried, Ended, Reached, Readable
  <1>17. CASE DiscoveryFails \/ EventFails
    <2>1. Raise /\ faults' = faults + 1 /\ UNCHANGED signals
      BY <1>17 DEF DiscoveryFails, EventFails, Fault
    <2>2. OneTrouble' => faults' + signals' = 1
      BY <1>0, <2>1 DEF OneTrouble
    <2> QED BY <2>1, <2>2, ExitRaise
  <1>18. CASE SaveFails
    <2>1. faults' = faults + 1 /\ UNCHANGED <<signals, kills>>
      BY <1>18 DEF SaveFails, Fault
    <2>2. OneTrouble' => OneTrouble /\ faults + signals = 0 /\ faults' + signals' = 1
      BY <1>0, <2>1 DEF OneTrouble
    <2>3. io # "none" /\ io' = "broken" /\ UNCHANGED <<run, state, step, interrupted>>
      BY <1>18 DEF SaveFails
    <2> QED BY <2>2, <2>3 DEF ExitInv, Opening, WayOut, Carried, Ended, Readable
  <1>19. CASE Signal
    <2>1. signals' = signals + 1 /\ UNCHANGED <<faults, kills>>
      BY <1>19 DEF Signal
    <2>2. OneTrouble' => OneTrouble /\ faults + signals = 0 /\ faults' + signals' = 1
      BY <1>0, <2>1 DEF OneTrouble
    <2>3. state'.status = "interrupted" /\ interrupted' /\ step # "off" /\ UNCHANGED step
      BY <1>19, <1>s DEF Signal, RunStatus
    <2>4. io' \in {io, "broken"}
      BY <1>19 DEF Signal
    <2> QED BY <2>2, <2>3, <2>4 DEF ExitInv, Opening, WayOut, Carried, Ended, Final
  <1>20. CASE Kill
    BY <1>0, <1>20 DEF Kill, ExitInv, OneTrouble
  <1>21. CASE UNCHANGED vars
    BY <1>21 DEF vars, ExitInv, OneTrouble, Opening, WayOut, Carried, Ended, Reached, Readable
  <1> QED
    BY <1>1, <1>2, <1>3, <1>4, <1>5, <1>6, <1>7, <1>8, <1>9, <1>10, <1>11, <1>12,
       <1>13, <1>14, <1>15, <1>16, <1>17, <1>18, <1>19, <1>20, <1>21 DEF Next, Work

(* One error or one signal, wherever it strikes, never leaves a run.json   *)
(* that still claims the run to be under way, nor one that is torn: run's  *)
(* except clause and its finally make sure of it.                          *)
THEOREM ExitStatusAlwaysRecorded == Spec => []ExitStatusRecorded
  <1>1. ExitInv => ExitStatusRecorded
    BY DEF ExitInv, OneTrouble, Ended, ExitStatusRecorded
  <1> QED BY <1>1, TypeInit, TypeStep, ExitInit, ExitStep, PTL DEF Spec
=============================================================================
