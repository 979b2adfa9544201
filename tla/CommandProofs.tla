--------------------------- MODULE CommandProofs ---------------------------
(***************************************************************************)
(* Proofs about what a user who repeats a command can count on: RunLock    *)
(* for any set of PIDs and any number of kills, and the commands that      *)
(* resume runs, as MCCommands composes them.                               *)
(***************************************************************************)
EXTENDS MCCommands, FiniteSetTheorems, TLAPS

LEMMA TypeStep == TypeOK /\ [Next]_vars => TypeOK'
  <1> SUFFICES ASSUME TypeOK, [Next]_vars PROVE TypeOK'
    OBVIOUS
  <1> USE ConstantsAssumption DEF ConstantsAssumption, TypeOK, To, Stages
  <1>1. CASE \E p \in Pids : Launch(p)
    BY <1>1 DEF Launch
  <1>2. CASE \E p \in Pids : Step(p)
    BY <1>2 DEF Step, Refuse, Decide, Open, Write, Release
  <1>3. CASE \E p \in Pids : Kill(p)
    BY <1>3 DEF Kill
  <1>4. CASE UNCHANGED vars
    BY <1>4 DEF vars
  <1> QED BY <1>1, <1>2, <1>3, <1>4 DEF Next

(* The lock file is absent, torn, or names a process. *)
THEOREM TypeCorrect == Spec => []TypeOK
  <1>1. Init => TypeOK
    BY ConstantsAssumption DEF ConstantsAssumption, Init, TypeOK, Stages
  <1> QED BY <1>1, TypeStep, PTL DEF Spec
-----------------------------------------------------------------------------
(* The processes that have passed the check. *)
Entered(p) == stage[p] \in {"opening", "writing", "held"}

(* When acquisitions do not overlap, a process that has passed the check   *)
(* is the only one: nobody else holds the lock, nobody is about to write   *)
(* it, and nobody can unlink the file before it is written.                *)
LockInv ==
  /\ TypeOK
  /\ \A p, q \in Pids : Acquiring(p) /\ Acquiring(q) => p = q
  /\ \A p, q \in Pids : Entered(p) /\ Entered(q) => p = q
  /\ \A p \in Pids : stage[p] = "writing" => lock = Torn
  /\ \A p \in Pids : stage[p] = "held" => lock = p

LEMMA LockInit == Init => LockInv
  <1>1. Init => TypeOK
    BY ConstantsAssumption DEF ConstantsAssumption, Init, TypeOK, Stages
  <1> QED BY <1>1 DEF Init, LockInv, Acquiring, Entered

LEMMA LockStep ==
  ASSUME ~Overlap
  PROVE  LockInv /\ [Next]_vars => LockInv'
  <1> SUFFICES ASSUME LockInv, [Next]_vars PROVE LockInv'
    OBVIOUS
  <1>1. TypeOK'
    BY TypeStep DEF LockInv
  <1> USE ConstantsAssumption DEF ConstantsAssumption, LockInv, TypeOK, To, Acquiring, Entered
  <1>2. ASSUME NEW p \in Pids, Launch(p)
        PROVE  LockInv'
    BY <1>1, <1>2 DEF Launch, Alive
  <1>3. ASSUME NEW p \in Pids, Refuse(p)
        PROVE  LockInv'
    BY <1>1, <1>3 DEF Refuse
  <1>4. ASSUME NEW p \in Pids, Decide(p)
        PROVE  LockInv'
    <2>1. \A q \in Pids : ~Entered(q)
      BY <1>4 DEF Decide, Alive
    <2> QED BY <1>1, <1>4, <2>1 DEF Decide
  <1>5. ASSUME NEW p \in Pids, Open(p)
        PROVE  LockInv'
    BY <1>1, <1>5 DEF Open
  <1>6. ASSUME NEW p \in Pids, Write(p)
        PROVE  LockInv'
    BY <1>1, <1>6 DEF Write
  <1>7. ASSUME NEW p \in Pids, Release(p)
        PROVE  LockInv'
    BY <1>1, <1>7 DEF Release
  <1>8. ASSUME NEW p \in Pids, Kill(p)
        PROVE  LockInv'
    BY <1>1, <1>8 DEF Kill
  <1>9. CASE UNCHANGED vars
    BY <1>9 DEF vars
  <1> QED
    BY <1>2, <1>3, <1>4, <1>5, <1>6, <1>7, <1>8, <1>9 DEF Next, Step

(* Processes that do not acquire the lock at the same moment exclude one   *)
(* another, whatever is killed and whichever PIDs come back.               *)
THEOREM LockExcludes == ASSUME ~Overlap PROVE Spec => []MutualExclusion
  <1>1. LockInv => MutualExclusion
    BY DEF LockInv, MutualExclusion, Entered
  <1> QED BY <1>1, LockInit, LockStep, PTL DEF Spec

(* ... and the lock file names the process that holds it. *)
THEOREM LockNamesHolder == ASSUME ~Overlap PROVE Spec => []HolderNamed
  <1>1. LockInv => HolderNamed
    BY DEF LockInv, HolderNamed
  <1> QED BY <1>1, LockInit, LockStep, PTL DEF Spec
-----------------------------------------------------------------------------
Written == [status : {"running", "interrupted", "complete", "failed"}, config : Configs]

CommandTypes ==
  /\ runs \in [Runs -> Written \cup {Command!Absent}]
  /\ locks \in [Runs -> Commands \cup {None}]
  /\ stages \in [Commands -> {"off", "scanning", "loading", "entering", "executing"}]
  /\ config \in [Commands -> Configs \cup {None}]
  /\ chosen \in [Commands -> Runs \cup {None}]
  /\ prior \in [Commands -> {None, "running", "interrupted", "complete", "failed"}]
  /\ plain \in [Configs -> Nat]

(* Looking for a run is done by one command at a time. *)
OneChooses == \A c, d \in Command!Choosing : c = d

(* What a command executes is its own. *)
ExecutesLocked ==
  \A c \in Commands : stages[c] = "executing" =>
    chosen[c] \in Runs /\ locks[chosen[c]] = c /\ runs[chosen[c]].status = "running"

(* The configuration of the run that a command is about to enter. *)
Target(c) ==
  IF stages[c] = "loading" \/ prior[c] # None THEN runs[chosen[c]].config ELSE config[c]

ChoosesWritten ==
  \A c \in Commands :
    /\ stages[c] # "off" => config[c] \in Configs
    /\ stages[c] \in {"loading", "entering"} => chosen[c] \in Runs
    /\ stages[c] = "loading" => runs[chosen[c]] # Command!Absent
    /\ stages[c] = "entering" /\ prior[c] # None => runs[chosen[c]] # Command!Absent

(* Besides the run that a command has chosen there are no more unfinished  *)
(* ones than plain commands.                                               *)
Others(c, f) == Cardinality(Command!Unfinished(f) \ {chosen[c]}) <= plain[f]

RoomForChosen ==
  \A c \in Commands, f \in Configs :
    stages[c] \in {"loading", "entering"} /\ Target(c) = f => Others(c, f)

CommandInv ==
  CommandTypes /\ OneChooses /\ ExecutesLocked /\ ChoosesWritten /\ RoomForChosen
    /\ Command!ResumeUnambiguous

LEMMA SameUnfinishedCount == \A S : Command!Cardinality(S) = Cardinality(S)
  BY DEF Command!Cardinality, Cardinality

(* Counting unfinished runs. *)
LEMMA Counting ==
  ASSUME NEW U \in SUBSET Runs, NEW r
  PROVE  /\ IsFiniteSet(U) /\ Cardinality(U) \in Nat
         /\ \A V \in SUBSET U : IsFiniteSet(V) /\ Cardinality(V) \in Nat
                                /\ Cardinality(V) <= Cardinality(U)
         /\ r \in U => Cardinality(U \ {r}) = Cardinality(U) - 1
         /\ Cardinality(U) <= Cardinality(U \ {r}) + 1
  <1>1. IsFiniteSet(U)
    BY CommandsAssumption, FS_Subset
  <1>2. Cardinality(U) \in Nat
    BY <1>1, FS_CardinalityType
  <1>3. \A V \in SUBSET U :
          IsFiniteSet(V) /\ Cardinality(V) \in Nat /\ Cardinality(V) <= Cardinality(U)
    BY <1>1, FS_Subset, FS_CardinalityType
  <1>4. Cardinality(U \ {r}) = IF r \in U THEN Cardinality(U) - 1 ELSE Cardinality(U)
    BY <1>1, FS_RemoveElement
  <1> QED BY <1>1, <1>2, <1>3, <1>4

LEMMA CommandInit == MCInit => CommandInv
  <1> SUFFICES ASSUME Command!Init PROVE CommandInv
    BY DEF MCInit
  <1> USE DEF Command!Init
  <1>1. CommandTypes
    BY DEF CommandTypes
  <1>2. OneChooses /\ ExecutesLocked /\ ChoosesWritten /\ RoomForChosen
    BY DEF OneChooses, Command!Choosing, ExecutesLocked, ChoosesWritten, RoomForChosen
  <1>3. \A f \in Configs : Command!Unfinished(f) = {}
    BY DEF Command!Unfinished, Command!Absent
  <1>4. Command!ResumeUnambiguous
    BY <1>3, FS_EmptySet, SameUnfinishedCount DEF Command!ResumeUnambiguous
  <1> QED BY <1>1, <1>2, <1>4 DEF CommandInv

(* A command that stops leaves fewer unfinished runs, and asks for none. *)
LEMMA Stopping ==
  ASSUME CommandInv, NEW c \in Commands, Command!Off(c), UNCHANGED plain,
         \A d \in Commands : stages[d] = "executing" /\ d # c =>
           runs'[chosen[d]] = runs[chosen[d]] /\ locks'[chosen[d]] = locks[chosen[d]],
         locks' \in [Runs -> Commands \cup {None}],
         runs' \in [Runs -> Written \cup {Command!Absent}],
         \A r \in Runs : runs'[r] = Command!Absent <=> runs[r] = Command!Absent,
         \A r \in Runs : runs'[r].config = runs[r].config,
         \A f \in Configs : Command!Unfinished(f)' \subseteq Command!Unfinished(f)
  PROVE  CommandInv'
  <1> USE DEF Command!Off
  <1>1. CommandTypes'
    BY DEF CommandInv, CommandTypes
  <1>2. OneChooses'
    BY DEF CommandInv, CommandTypes, OneChooses, Command!Choosing
  <1>3. ExecutesLocked'
    BY DEF CommandInv, CommandTypes, ExecutesLocked
  <1>4. ChoosesWritten'
    BY DEF CommandInv, CommandTypes, ChoosesWritten
  <1>5. ASSUME NEW CONSTANT f \in Configs, NEW CONSTANT d \in Commands, d # c, Others(d, f)
        PROVE  Others(d, f)'
    <2>1. chosen'[d] = chosen[d] /\ plain' = plain /\ plain[f] \in Nat
      BY <1>5 DEF CommandInv, CommandTypes
    <2> DEFINE U == Command!Unfinished(f) \ {chosen[d]}
               V == Command!Unfinished(f)' \ {chosen[d]}
    <2>2. V \subseteq U /\ U \in SUBSET Runs
      BY DEF Command!Unfinished
    <2> HIDE DEF U, V
    <2>3. Cardinality(U) \in Nat /\ Cardinality(V) \in Nat /\ Cardinality(V) <= Cardinality(U)
      BY <2>2, Counting
    <2> QED BY <1>5, <2>1, <2>3 DEF Others, U, V
  <1>6. RoomForChosen'
    <2> SUFFICES ASSUME NEW CONSTANT d \in Commands, NEW CONSTANT f \in Configs,
                        stages'[d] \in {"loading", "entering"}, Target(d)' = f
                 PROVE  Others(d, f)'
      BY DEF RoomForChosen
    <2>1. d # c /\ stages'[d] = stages[d] /\ chosen'[d] = chosen[d] /\ prior'[d] = prior[d]
          /\ config'[d] = config[d]
      BY DEF CommandInv, CommandTypes
    <2>2. chosen[d] \in Runs
      BY <2>1 DEF CommandInv, ChoosesWritten
    <2>3. stages[d] \in {"loading", "entering"} /\ Target(d) = f
      BY <2>1, <2>2 DEF Target
    <2>4. Others(d, f)
      BY <2>3 DEF CommandInv, RoomForChosen
    <2> QED BY <1>5, <2>1, <2>4
  <1>7. Command!ResumeUnambiguous'
    <2> SUFFICES ASSUME NEW CONSTANT f \in Configs
                 PROVE  Cardinality(Command!Unfinished(f)') <= plain'[f] + 1
      BY SameUnfinishedCount DEF Command!ResumeUnambiguous
    <2>1. Cardinality(Command!Unfinished(f)) <= plain[f] + 1 /\ plain[f] \in Nat
      BY SameUnfinishedCount DEF CommandInv, CommandTypes, Command!ResumeUnambiguous
    <2> DEFINE U == Command!Unfinished(f)
               V == Command!Unfinished(f)'
    <2>2. V \subseteq U /\ U \in SUBSET Runs
      BY DEF Command!Unfinished
    <2> HIDE DEF U, V
    <2>3. Cardinality(U) \in Nat /\ Cardinality(V) \in Nat /\ Cardinality(V) <= Cardinality(U)
      BY <2>2, Counting
    <2> QED BY <2>1, <2>3 DEF U, V
  <1> QED BY <1>1, <1>2, <1>3, <1>4, <1>6, <1>7 DEF CommandInv

(* A command that goes on to choose a run, and the others stay. *)
Chooses(c) ==
  \E st \in {"scanning", "loading", "entering"}, r \in Runs \cup {None},
     p \in {None, "running", "interrupted", "complete", "failed"} : Command!Becomes(c, st, r, p)

(* It may choose a run besides which there is room. *)
LEMMA Choosing ==
  ASSUME CommandInv, NEW CONSTANT c \in Commands, UNCHANGED <<runs, locks>>,
         Command!Choosing \subseteq {c}, stages[c] # "executing", Chooses(c),
         config' \in [Commands -> Configs \cup {None}], config'[c] \in Configs,
         \A d \in Commands : d # c => config'[d] = config[d],
         plain' \in [Configs -> Nat], \A f \in Configs : plain[f] <= plain'[f],
         stages'[c] # "scanning" => chosen'[c] \in Runs,
         stages'[c] = "loading" => runs[chosen'[c]] # Command!Absent,
         stages'[c] = "entering" /\ prior'[c] # None => runs[chosen'[c]] # Command!Absent,
         stages'[c] # "scanning" => \A f \in Configs : Target(c)' = f => Others(c, f)'
  PROVE  CommandInv'
  <1> USE DEF Command!Becomes
  <1>0. PICK st \in {"scanning", "loading", "entering"}, r \in Runs \cup {None},
             p \in {None, "running", "interrupted", "complete", "failed"} :
          Command!Becomes(c, st, r, p)
    BY DEF Chooses
  <1> USE <1>0
  <1>1. CommandTypes'
    BY DEF CommandInv, CommandTypes
  <1>2. OneChooses'
    BY DEF CommandInv, CommandTypes, OneChooses, Command!Choosing
  <1>3. ExecutesLocked'
    BY DEF CommandInv, CommandTypes, ExecutesLocked
  <1>4. \A d \in Commands : stages'[d] \in {"loading", "entering"} => d = c
    BY DEF CommandInv, CommandTypes, Command!Choosing
  <1>5. ChoosesWritten'
    BY <1>4 DEF CommandInv, CommandTypes, ChoosesWritten
  <1>6. RoomForChosen'
    BY <1>4 DEF RoomForChosen
  <1>7. Command!ResumeUnambiguous'
    <2> SUFFICES ASSUME NEW CONSTANT f \in Configs
                 PROVE  Cardinality(Command!Unfinished(f)') <= plain'[f] + 1
      BY SameUnfinishedCount DEF Command!ResumeUnambiguous
    <2>1. Cardinality(Command!Unfinished(f)) <= plain[f] + 1
      BY SameUnfinishedCount DEF CommandInv, Command!ResumeUnambiguous
    <2>2. Cardinality(Command!Unfinished(f)) \in Nat
      BY Counting DEF Command!Unfinished
    <2>3. plain[f] \in Nat /\ plain'[f] \in Nat
      BY DEF CommandInv, CommandTypes
    <2>4. Command!Unfinished(f)' = Command!Unfinished(f)
      BY DEF Command!Unfinished
    <2> QED BY <2>1, <2>2, <2>3, <2>4
  <1> QED BY <1>1, <1>2, <1>3, <1>5, <1>6, <1>7 DEF CommandInv

(* What is unfinished besides a run is no more than what is unfinished. *)
LEMMA Besides ==
  ASSUME CommandInv, NEW f \in Configs, NEW r
  PROVE  /\ Cardinality(Command!Unfinished(f) \ {r}) <= plain[f] + 1
         /\ r \in Command!Unfinished(f) => Cardinality(Command!Unfinished(f) \ {r}) <= plain[f]
         /\ Cardinality(Command!Unfinished(f) \ {r}) \in Nat
         /\ plain[f] \in Nat
  <1> DEFINE U == Command!Unfinished(f)
  <1>1. U \in SUBSET Runs
    BY DEF Command!Unfinished
  <1>2. plain[f] \in Nat /\ Cardinality(U) <= plain[f] + 1
    BY SameUnfinishedCount DEF CommandInv, CommandTypes, Command!ResumeUnambiguous
  <1> HIDE DEF U
  <1>3. U \ {r} \in SUBSET U
    OBVIOUS
  <1> QED BY <1>1, <1>2, <1>3, Counting DEF U

(* Where a command stands then. *)
Chosen(c, st, r, p) == Chooses(c) /\ stages'[c] = st /\ chosen'[c] = r /\ prior'[c] = p

LEMMA Becoming ==
  ASSUME CommandInv, NEW c \in Commands, NEW st \in {"scanning", "loading", "entering"},
         NEW r \in Runs \cup {None},
         NEW p \in {None, "running", "interrupted", "complete", "failed"},
         Command!Becomes(c, st, r, p)
  PROVE  Chosen(c, st, r, p)
  BY DEF CommandInv, CommandTypes, Chosen, Chooses, Command!Becomes

LEMMA SameUnfinished == UNCHANGED runs => \A f : Command!Unfinished(f)' = Command!Unfinished(f)
  BY DEF Command!Unfinished

LEMMA StartStep ==
  ASSUME CommandInv, NEW CONSTANT c \in Commands, NEW CONSTANT f \in Configs,
         Command!StartPlain(c, f) \/ Command!StartResume(c, f)
           \/ \E r \in Runs : Command!StartNamed(c, f, r)
  PROVE  CommandInv'
  <1>1. /\ stages[c] = "off" /\ Command!Choosing = {} /\ UNCHANGED <<runs, locks>>
        /\ config' = [config EXCEPT ![c] = f]
    BY DEF Command!StartPlain, Command!StartResume, Command!StartNamed
  <1>2. /\ config' \in [Commands -> Configs \cup {None}] /\ config'[c] = f
        /\ \A d \in Commands : d # c => config'[d] = config[d]
    BY <1>1 DEF CommandInv, CommandTypes
  <1>3. plain \in [Configs -> Nat] /\ \A g \in Configs : plain[g] <= plain[g]
    BY DEF CommandInv, CommandTypes
  <1>4. CASE Command!StartPlain(c, f)
    <2>1. plain' = [plain EXCEPT ![f] = @ + 1]
      BY <1>4 DEF Command!StartPlain
    <2>2. PICK r \in Runs : Command!Becomes(c, "entering", r, None)
      BY <1>4 DEF Command!StartPlain, Command!Free
    <2>3. plain' \in [Configs -> Nat] /\ \A g \in Configs : plain[g] <= plain'[g]
      BY <1>3, <2>1
    <2>4. Chosen(c, "entering", r, None)
      BY <2>2, Becoming
    <2>5. Target(c)' = f /\ Others(c, f)'
      BY <1>1, <1>2, <1>3, <2>1, <2>4, Besides, SameUnfinished DEF Target, Others, Chosen
    <2> QED BY <1>1, <1>2, <2>3, <2>4, <2>5, Choosing DEF Chosen
  <1>5. CASE Command!StartResume(c, f)
    <2>1. UNCHANGED plain /\ Command!Becomes(c, "scanning", None, None)
      BY <1>5 DEF Command!StartResume
    <2>2. Chosen(c, "scanning", None, None)
      BY <2>1, Becoming
    <2> QED BY <1>1, <1>2, <1>3, <2>1, <2>2, Choosing DEF Chosen
  <1>6. ASSUME NEW CONSTANT r \in Runs, Command!StartNamed(c, f, r) PROVE CommandInv'
    <2>1. /\ runs[r] # Command!Absent /\ runs[r] \in Written
          /\ Command!Becomes(c, "entering", r, runs[r].status)
      BY <1>6 DEF Command!StartNamed, CommandInv, CommandTypes
    <2>2. /\ runs[r].config \in Configs
          /\ runs[r].status \in {"running", "interrupted", "complete", "failed"}
          /\ runs[r].status # None
      BY <2>1, CommandsAssumption DEF Written
    <2>3. PICK g \in Configs : g = runs[r].config
      BY <2>2
    <2>4. Chosen(c, "entering", r, runs[r].status)
      BY <2>1, <2>2, Becoming
    <2>5. Target(c)' = g
      BY <1>1, <2>2, <2>3, <2>4 DEF Target, Chosen
    <2>6. CASE runs[r].status \in {"running", "interrupted"}
      <3>1. UNCHANGED plain
        BY <1>6, <2>6 DEF Command!StartNamed, Command!ResumableStatus
      <3>2. r \in Command!Unfinished(g)
        BY <2>3, <2>6 DEF Command!Unfinished
      <3>3. Others(c, g)'
        BY <1>1, <2>4, <3>1, <3>2, Besides, SameUnfinished DEF Others, Chosen
      <3> QED BY <1>1, <1>2, <1>3, <2>1, <2>4, <2>5, <3>1, <3>3, Choosing DEF Chosen
    <2>7. CASE ~(runs[r].status \in {"running", "interrupted"})
      <3>1. plain' = [plain EXCEPT ![g] = @ + 1]
        BY <1>6, <2>3, <2>7 DEF Command!StartNamed, Command!ResumableStatus
      <3>2. plain' \in [Configs -> Nat] /\ \A h \in Configs : plain[h] <= plain'[h]
        BY <1>3, <3>1
      <3>3. Others(c, g)'
        BY <1>1, <1>3, <2>4, <3>1, Besides, SameUnfinished DEF Others, Chosen
      <3> QED BY <1>1, <1>2, <2>1, <2>4, <2>5, <3>2, <3>3, Choosing DEF Chosen
    <2> QED BY <2>6, <2>7
  <1> QED BY <1>4, <1>5, <1>6

(* A command that gives up changes no run. *)
LEMMA GivingUp ==
  ASSUME CommandInv, NEW CONSTANT c \in Commands, Command!Off(c), UNCHANGED <<runs, locks, plain>>
  PROVE  CommandInv'
  <1>1. /\ locks' \in [Runs -> Commands \cup {None}]
        /\ runs' \in [Runs -> Written \cup {Command!Absent}]
    BY DEF CommandInv, CommandTypes
  <1>2. \A f \in Configs : Command!Unfinished(f)' \subseteq Command!Unfinished(f)
    BY SameUnfinished
  <1> QED BY <1>1, <1>2, Stopping

LEMMA ScanStep ==
  ASSUME CommandInv, NEW CONSTANT c \in Commands, Command!Scan(c)
  PROVE  CommandInv'
  <1>1. stages[c] = "scanning" /\ UNCHANGED <<runs, locks, plain>>
    BY DEF Command!Scan
  <1>2. Command!Choosing \subseteq {c}
    BY <1>1 DEF CommandInv, OneChooses, Command!Choosing
  <1>3. PICK f \in Configs : f = config[c]
    BY <1>1 DEF CommandInv, ChoosesWritten
  <1>4. /\ config \in [Commands -> Configs \cup {None}]
        /\ plain \in [Configs -> Nat] /\ \A g \in Configs : plain[g] <= plain[g]
    BY DEF CommandInv, CommandTypes
  <1>5. Command!Candidates(f) = Command!Unfinished(f)
    BY DEF Command!Candidates, Command!Unfinished, Command!ResumableStatus
  <1>6. CASE Command!Off(c)
    BY <1>1, <1>6, GivingUp
  <1>7. ASSUME NEW CONSTANT r \in Runs, Command!Becomes(c, "entering", r, None), UNCHANGED config,
               Command!Candidates(f) = {}
        PROVE  CommandInv'
    <2>1. Chosen(c, "entering", r, None)
      BY <1>7, Becoming
    <2>2. Command!Unfinished(f) \ {r} = {} /\ 0 <= plain[f]
      BY <1>4, <1>5, <1>7
    <2>3. Target(c)' = f /\ Others(c, f)'
      BY <1>1, <1>3, <1>7, <2>1, <2>2, SameUnfinished, FS_EmptySet DEF Target, Others, Chosen
    <2> QED BY <1>1, <1>2, <1>3, <1>4, <1>7, <2>1, <2>3, Choosing DEF Chosen
  <1>8. ASSUME NEW CONSTANT r \in Command!Candidates(f), Command!Becomes(c, "loading", r, None),
               UNCHANGED config
        PROVE  CommandInv'
    <2>1. r \in Runs /\ runs[r].config = f
      BY <1>8 DEF Command!Candidates
    <2>2. Chosen(c, "loading", r, None)
      BY <1>8, <2>1, Becoming
    <2>3. Target(c)' = f /\ Others(c, f)'
      BY <1>1, <1>4, <1>5, <1>8, <2>1, <2>2, Besides, SameUnfinished DEF Target, Others, Chosen
    <2>4. runs[r] # Command!Absent
      BY <1>8 DEF Command!Candidates, Command!Absent, Command!ResumableStatus
    <2> QED BY <1>1, <1>2, <1>3, <1>4, <1>8, <2>1, <2>2, <2>3, <2>4, Choosing DEF Chosen
  <1> QED BY <1>3, <1>6, <1>7, <1>8 DEF Command!Scan, Command!Free

(* The run may have ended since it was found; there is room for it still. *)
LEMMA LoadStep ==
  ASSUME CommandInv, NEW CONSTANT c \in Commands, Command!Load(c)
  PROVE  CommandInv'
  <1> DEFINE r == chosen[c]
             p == runs[r].status
  <1>1. /\ stages[c] = "loading" /\ UNCHANGED <<runs, locks, config, plain>>
        /\ Command!Becomes(c, "entering", r, p)
    BY DEF Command!Load
  <1>2. Command!Choosing \subseteq {c}
    BY <1>1 DEF CommandInv, OneChooses, Command!Choosing
  <1>3. r \in Runs /\ runs[r] # Command!Absent /\ config[c] \in Configs
    BY <1>1 DEF CommandInv, ChoosesWritten
  <1>4. runs[r] \in Written
    BY <1>3 DEF CommandInv, CommandTypes
  <1>5. p \in {"running", "interrupted", "complete", "failed"} /\ p # None
    BY <1>4, CommandsAssumption DEF Written
  <1>6. Chosen(c, "entering", r, p)
    BY <1>1, <1>3, <1>5, Becoming
  <1>7. /\ config \in [Commands -> Configs \cup {None}]
        /\ plain \in [Configs -> Nat] /\ \A g \in Configs : plain[g] <= plain[g]
    BY DEF CommandInv, CommandTypes
  <1>8. \A f \in Configs : Target(c)' = f => Others(c, f)'
    <2> SUFFICES ASSUME NEW CONSTANT f \in Configs, Target(c)' = f PROVE Others(c, f)'
      OBVIOUS
    <2>1. Target(c) = f
      BY <1>1, <1>5, <1>6 DEF Target, Chosen
    <2>2. Others(c, f)
      BY <1>1, <2>1 DEF CommandInv, RoomForChosen
    <2> QED BY <1>1, <1>6, <2>2, SameUnfinished DEF Others, Chosen
  <1> QED BY <1>1, <1>2, <1>3, <1>6, <1>7, <1>8, Choosing DEF Chosen

LEMMA EnterStep ==
  ASSUME CommandInv, NEW CONSTANT c \in Commands, Command!Enter(c)
  PROVE  CommandInv'
  <1> DEFINE r == chosen[c]
  <1>1. stages[c] = "entering" /\ UNCHANGED plain /\ r \in Runs /\ config[c] \in Configs
    BY DEF Command!Enter, CommandInv, ChoosesWritten
  <1>2. CASE locks[r] # None
    BY <1>2, GivingUp DEF Command!Enter
  <1>3. CASE locks[r] = None
    <2>1. /\ locks' = [locks EXCEPT ![r] = c] /\ stages' = [stages EXCEPT ![c] = "executing"]
          /\ UNCHANGED <<config, chosen, prior>>
          /\ runs' = [runs EXCEPT ![r] = [status |-> "running",
                        config |-> IF prior[c] = None THEN config[c] ELSE runs[r].config]]
      BY <1>3 DEF Command!Enter
    <2>2. PICK f \in Configs : f = IF prior[c] = None THEN config[c] ELSE runs[r].config
      <3>1. CASE prior[c] = None
        BY <1>1, <3>1
      <3>2. CASE prior[c] # None
        <4>1. runs[r] \in Written
          BY <1>1, <3>2 DEF CommandInv, CommandTypes, ChoosesWritten
        <4> QED BY <3>2, <4>1 DEF Written
      <3> QED BY <3>1, <3>2
    <2>3. runs' = [runs EXCEPT ![r] = [status |-> "running", config |-> f]]
      BY <2>1, <2>2
    <2>4. CommandTypes'
      BY <1>1, <2>1, <2>3 DEF CommandInv, CommandTypes, Written
    <2>5. OneChooses'
      BY <1>1, <2>1 DEF CommandInv, CommandTypes, OneChooses, Command!Choosing
    <2>6. ExecutesLocked'
      <3>1. \A d \in Commands : stages[d] = "executing" => chosen[d] # r
        BY <1>1, <1>3, CommandsAssumption DEF CommandInv, ExecutesLocked
      <3> QED BY <1>1, <2>1, <2>3, <3>1 DEF CommandInv, CommandTypes, ExecutesLocked
    <2>7. \A d \in Commands : stages'[d] \in {"loading", "entering"} => FALSE
      BY <1>1, <2>1 DEF CommandInv, CommandTypes, OneChooses, Command!Choosing
    <2>8. ChoosesWritten'
      BY <1>1, <2>1, <2>7 DEF CommandInv, CommandTypes, ChoosesWritten
    <2>9. RoomForChosen'
      BY <2>7 DEF RoomForChosen
    <2>10. Command!ResumeUnambiguous'
      <3> SUFFICES ASSUME NEW CONSTANT g \in Configs
                   PROVE  Cardinality(Command!Unfinished(g)') <= plain'[g] + 1
        BY SameUnfinishedCount DEF Command!ResumeUnambiguous
      <3> DEFINE U == Command!Unfinished(g)
                 V == Command!Unfinished(g)'
      <3>1. U \in SUBSET Runs /\ V \in SUBSET Runs /\ plain[g] \in Nat
        BY DEF Command!Unfinished, CommandInv, CommandTypes
      <3>2. V \ {r} \subseteq U \ {r}
        BY <1>1, <2>3 DEF Command!Unfinished, CommandInv, CommandTypes
      <3>3. g # f => r \notin V
        BY <1>1, <2>3 DEF Command!Unfinished, CommandInv, CommandTypes
      <3>4. g = f => Cardinality(U \ {r}) <= plain[g]
        <4> SUFFICES ASSUME g = f PROVE Others(c, f)
          BY DEF Others
        <4>1. Target(c) = f
          BY <1>1, <2>2 DEF Target
        <4> QED BY <1>1, <4>1 DEF CommandInv, RoomForChosen
      <3>5. Cardinality(U) <= plain[g] + 1
        BY SameUnfinishedCount DEF CommandInv, Command!ResumeUnambiguous
      <3> HIDE DEF U, V
      <3>6. /\ Cardinality(U \ {r}) \in Nat /\ Cardinality(U) \in Nat
            /\ Cardinality(V) \in Nat /\ Cardinality(V \ {r}) \in Nat
            /\ Cardinality(V \ {r}) <= Cardinality(U \ {r})
            /\ Cardinality(U \ {r}) <= Cardinality(U)
            /\ Cardinality(V) <= Cardinality(V \ {r}) + 1
        <4>1. U \ {r} \in SUBSET Runs /\ U \ {r} \in SUBSET U /\ V \ {r} \in SUBSET (U \ {r})
          BY <3>1, <3>2
        <4> QED BY <3>1, <4>1, Counting
      <3>7. CASE g = f
        BY <1>1, <3>1, <3>4, <3>6, <3>7 DEF V
      <3>8. CASE g # f
        <4>1. V = V \ {r}
          BY <3>3, <3>8
        <4> QED BY <1>1, <3>1, <3>5, <3>6, <4>1 DEF V
      <3> QED BY <3>7, <3>8
    <2> QED BY <2>4, <2>5, <2>6, <2>8, <2>9, <2>10 DEF CommandInv
  <1> QED BY <1>2, <1>3

LEMMA EndStep ==
  ASSUME CommandInv, NEW CONSTANT c \in Commands, Command!Finish(c) \/ Command!Fail(c)
  PROVE  CommandInv'
  <1>1. PICK s \in {"complete", "interrupted", "failed"} : Command!Ends(c, s)
    BY DEF Command!Finish, Command!Fail
  <1> DEFINE r == chosen[c]
  <1>2. /\ stages[c] = "executing" /\ Command!Off(c) /\ UNCHANGED plain
        /\ runs' = [runs EXCEPT ![r].status = s] /\ locks' = [locks EXCEPT ![r] = None]
    BY <1>1 DEF Command!Ends
  <1>3. r \in Runs /\ locks[r] = c /\ runs[r].status = "running"
    BY <1>2 DEF CommandInv, ExecutesLocked
  <1>4. runs[r] \in Written
    BY <1>3 DEF CommandInv, CommandTypes, Command!Absent
  <1>5. \A d \in Commands : stages[d] = "executing" /\ d # c => chosen[d] # r
    BY <1>3 DEF CommandInv, ExecutesLocked
  <1>6. /\ locks' \in [Runs -> Commands \cup {None}]
        /\ runs' \in [Runs -> Written \cup {Command!Absent}]
    BY <1>2, <1>3, <1>4 DEF CommandInv, CommandTypes, Written
  <1>7. \A q \in Runs : q # r => runs'[q] = runs[q] /\ locks'[q] = locks[q]
    BY <1>2 DEF CommandInv, CommandTypes
  <1>8. runs'[r] \in Written /\ runs'[r].config = runs[r].config
    BY <1>2, <1>3, <1>4 DEF CommandInv, CommandTypes, Written
  <1>9. Command!Absent \notin Written
    BY DEF Command!Absent, Written
  <1>10. \A q \in Runs : runs'[q] = Command!Absent <=> runs[q] = Command!Absent
    BY <1>4, <1>7, <1>8, <1>9
  <1>11. \A q \in Runs : runs'[q].config = runs[q].config
    BY <1>7, <1>8
  <1>12. \A f \in Configs : Command!Unfinished(f)' \subseteq Command!Unfinished(f)
    BY <1>3, <1>7, <1>11 DEF Command!Unfinished
  <1>13. \A d \in Commands : stages[d] = "executing" /\ d # c =>
           runs'[chosen[d]] = runs[chosen[d]] /\ locks'[chosen[d]] = locks[chosen[d]]
    BY <1>5, <1>7 DEF CommandInv, ExecutesLocked
  <1> QED BY <1>2, <1>6, <1>10, <1>11, <1>12, <1>13, Stopping

LEMMA KillStep ==
  ASSUME CommandInv, NEW CONSTANT c \in Commands, Command!Kill(c)
  PROVE  CommandInv'
  <1>1. /\ Command!Off(c) /\ UNCHANGED <<runs, plain>>
        /\ locks' = [r \in Runs |-> IF locks[r] = c THEN None ELSE locks[r]]
    BY DEF Command!Kill
  <1>2. /\ locks' \in [Runs -> Commands \cup {None}]
        /\ runs' \in [Runs -> Written \cup {Command!Absent}]
    BY <1>1 DEF CommandInv, CommandTypes
  <1>3. \A d \in Commands : stages[d] = "executing" /\ d # c =>
          runs'[chosen[d]] = runs[chosen[d]] /\ locks'[chosen[d]] = locks[chosen[d]]
    BY <1>1 DEF CommandInv, ExecutesLocked
  <1>4. \A f \in Configs : Command!Unfinished(f)' \subseteq Command!Unfinished(f)
    BY <1>1, SameUnfinished
  <1> QED BY <1>1, <1>2, <1>3, <1>4, Stopping

LEMMA CommandStep == CommandInv /\ [MCNext]_all => CommandInv'
  <1> SUFFICES ASSUME CommandInv, [MCNext]_all PROVE CommandInv'
    OBVIOUS
  <1>1. CASE Command!Next
    <2>1. PICK c \in Commands :
            \/ \E f \in Configs : Command!StartPlain(c, f) \/ Command!StartResume(c, f)
            \/ \E f \in Configs, r \in Runs : Command!StartNamed(c, f, r)
            \/ Command!Step(c) \/ Command!Fail(c) \/ Command!Kill(c)
      BY <1>1 DEF Command!Next
    <2> QED BY <2>1, StartStep, ScanStep, LoadStep, EnterStep, EndStep, KillStep DEF Command!Step
  <1>2. CASE UNCHANGED commandVars
    <2>1. \A f : Command!Unfinished(f)' = Command!Unfinished(f)
      BY <1>2, SameUnfinished DEF commandVars
    <2>2. CommandTypes' /\ OneChooses' /\ ExecutesLocked' /\ ChoosesWritten'
      BY <1>2 DEF commandVars, CommandInv, CommandTypes, OneChooses, Command!Choosing,
         ExecutesLocked, ChoosesWritten
    <2>3. RoomForChosen' /\ Command!ResumeUnambiguous'
      BY <1>2, <2>1 DEF commandVars, CommandInv, RoomForChosen, Target, Others,
         Command!ResumeUnambiguous
    <2> QED BY <2>2, <2>3 DEF CommandInv
  <1> QED BY <1>1, <1>2 DEF MCNext, all

(* However commands are interrupted, killed and repeated: of a             *)
(* configuration there is at most one unfinished run more than commands    *)
(* that did not resume one, so --resume alone is never ambiguous.          *)
THEOREM ResumesUnambiguous == MCSpec => []ResumeUnambiguous
  <1>1. CommandInv => Command!ResumeUnambiguous
    BY DEF CommandInv
  <1> QED BY <1>1, CommandInit, CommandStep, PTL DEF MCSpec, ResumeUnambiguous
=============================================================================
