---------------------------- MODULE ArchiveProofs ----------------------------
(***************************************************************************)
(* Proofs about ArchiveStore: for any processes, contents, stores and      *)
(* bounds, as long as only captures of the filesystem store overlap.       *)
(***************************************************************************)
EXTENDS ArchiveStore, TLAPS

(* A capture whose version has been chosen. *)
Chosen(c) ==
  pc[c] \in {"checking", "staging", "history", "history-open", "history-fill",
             "latest-open", "latest-fill", "verify"}

(* A capture at work has read a source, and one that has chosen a version  *)
(* has one of those there may be.                                          *)
TypeInv ==
  /\ TypeOK
  /\ \A c \in Captures : pc[c] # "off" => job[c].content \in Contents
  /\ \A c \in Captures : Chosen(c) => job[c].version \in Versions

(* What the proofs need to know of the five strategies. *)
LEMMA StrategyFacts ==
  ASSUME NEW s \in Strategies
  PROVE  /\ s.atomic \in BOOLEAN
         /\ Len(s.files) \in Nat
         /\ DOMAIN s.files = 1 .. Len(s.files)
         /\ FilesOf(s) \subseteq Files
         /\ "manifest" \in FilesOf(s)
         /\ s.name = "filesystem" => s.atomic
  <1>1. CASE s = FilesystemStore
    BY <1>1 DEF FilesystemStore, FilesOf, Files
  <1>2. CASE s = SunoStore
    BY <1>2 DEF SunoStore, FilesOf, Files
  <1>3. CASE s = DistroKidStore
    BY <1>3 DEF DistroKidStore, FilesOf, Files
  <1>4. CASE s = SoundCloudStore
    BY <1>4 DEF SoundCloudStore, FilesOf, Files
  <1>5. CASE s = ChromeBookmarksStore
    BY <1>5 DEF ChromeBookmarksStore, FilesOf, Files
  <1> QED BY <1>1, <1>2, <1>3, <1>4, <1>5 DEF Strategies

LEMMA TypeInit == Init => TypeInv
  <1> SUFFICES ASSUME Init PROVE TypeInv
    OBVIOUS
  <1> USE ConstantsAssumption DEF ConstantsAssumption, Init
  <1>1. Empty \in [Files -> Contents \cup {Missing}]
    BY DEF Empty
  <1>2. NoJob \in Jobs
    BY DEF NoJob, Jobs
  <1>3. NoResult \in [status: {"none", "failed", "complete", "unchanged"},
                      version: 0 .. MaxAttempts, content: Contents \cup {Missing},
                      verification_passed: BOOLEAN]
    BY DEF NoResult, Result
  <1>4. NoReport \in [version: 0 .. MaxAttempts, status: {"none", "pass", "fail", "raised"}]
    BY DEF NoReport
  <1> QED BY <1>1, <1>2, <1>3, <1>4 DEF TypeInv, TypeOK, Chosen, Stages

ResultType ==
  [status: {"none", "failed", "complete", "unchanged"}, version: 0 .. MaxAttempts,
   content: Contents \cup {Missing}, verification_passed: BOOLEAN]

(* The end of a capture, whichever: it forgets its job. *)
LEMMA EndTyped ==
  ASSUME TypeOK, NEW c \in Captures, NEW status \in {"failed", "complete", "unchanged"},
         NEW version \in 0 .. MaxAttempts, NEW content \in Contents \cup {Missing},
         End(c, status, version, content)
  PROVE  /\ pc' \in [Captures -> Stages] /\ job' \in [Captures -> Jobs]
         /\ result' \in [Captures -> ResultType]
         /\ \A d \in Captures : Chosen(d)' => d # c /\ Chosen(d) /\ job'[d] = job[d]
         /\ \A d \in Captures : pc'[d] # "off" => d # c /\ pc[d] # "off" /\ job'[d] = job[d]
  <1>1. NoJob \in Jobs
    BY ConstantsAssumption DEF NoJob, Jobs, ConstantsAssumption
  <1>2. Result(status, version, content) \in ResultType
    BY DEF Result, ResultType
  <1>3. result \in [Captures -> ResultType]
    BY DEF TypeOK, ResultType
  <1> QED BY <1>1, <1>2, <1>3 DEF End, To, TypeOK, Stages, Chosen

LEMMA FailTyped ==
  ASSUME TypeOK, NEW c \in Captures, Fail(c)
  PROVE  /\ pc' \in [Captures -> Stages] /\ job' \in [Captures -> Jobs]
         /\ result' \in [Captures -> ResultType]
         /\ \A d \in Captures : Chosen(d)' => d # c /\ Chosen(d) /\ job'[d] = job[d]
         /\ \A d \in Captures : pc'[d] # "off" => d # c /\ pc[d] # "off" /\ job'[d] = job[d]
  BY EndTyped, ConstantsAssumption DEF Fail, ConstantsAssumption

(* The steps that fill a staging directory or prepare the history leave    *)
(* the version and the content of every job alone.                         *)
LEMMA OneFieldKeeps ==
  ASSUME NEW c \in Captures, job \in [Captures -> Jobs],
         \/ \E n : job' = [job EXCEPT ![c].staged = n]
         \/ \E h : job' = [job EXCEPT ![c].history = h]
  PROVE  \A d \in Captures : job'[d].version = job[d].version /\ job'[d].content = job[d].content
  <1>1. CASE \E n : job' = [job EXCEPT ![c].staged = n]
    BY <1>1 DEF Jobs
  <1>2. CASE \E h : job' = [job EXCEPT ![c].history = h]
    BY <1>2 DEF Jobs
  <1> QED BY <1>1, <1>2

(* What an action does to the job of one capture keeps the jobs typed. *)
LEMMA JobsTyped ==
  ASSUME NEW c \in Captures, job \in [Captures -> Jobs],
         \/ \E v \in 0 .. MaxAttempts : job' = [job EXCEPT ![c].version = v]
         \/ \E n \in Nat : job' = [job EXCEPT ![c].staged = n]
         \/ \E h \in Seq(Nat) : job' = [job EXCEPT ![c].history = h]
  PROVE  job' \in [Captures -> Jobs]
  <1>0. job[c] \in Jobs
    OBVIOUS
  <1>1. ASSUME NEW v \in 0 .. MaxAttempts, job' = [job EXCEPT ![c].version = v]
        PROVE  job' \in [Captures -> Jobs]
    <2>1. [job[c] EXCEPT !.version = v] \in Jobs
      BY <1>0 DEF Jobs
    <2> QED BY <1>1, <2>1
  <1>2. ASSUME NEW n \in Nat, job' = [job EXCEPT ![c].staged = n]
        PROVE  job' \in [Captures -> Jobs]
    <2>1. [job[c] EXCEPT !.staged = n] \in Jobs
      BY <1>0 DEF Jobs
    <2> QED BY <1>2, <2>1
  <1>3. ASSUME NEW h \in Seq(Nat), job' = [job EXCEPT ![c].history = h]
        PROVE  job' \in [Captures -> Jobs]
    <2>1. [job[c] EXCEPT !.history = h] \in Jobs
      BY <1>0 DEF Jobs
    <2> QED BY <1>3, <2>1
  <1> QED BY <1>1, <1>2, <1>3

LEMMA NewJob ==
  ASSUME NEW x \in Contents, NEW force \in BOOLEAN
  PROVE  LET j == [NoJob EXCEPT !.content = x, !.force = force]
         IN  j \in Jobs /\ j.content = x /\ j.staged = 0
  <1>1. NoJob \in Jobs
    BY ConstantsAssumption DEF NoJob, Jobs, ConstantsAssumption
  <1> QED BY <1>1 DEF Jobs, NoJob

LEMMA TypeStep == TypeInv /\ [Next]_vars => TypeInv'
  <1> SUFFICES ASSUME TypeInv, [Next]_vars PROVE TypeInv'
    OBVIOUS
  <1> USE ConstantsAssumption DEF ConstantsAssumption
  <1> DEFINE File == [Files -> Contents \cup {Missing}]
  <1>a. /\ store \in Strategies /\ store.atomic \in BOOLEAN
        /\ Len(store.files) \in Nat /\ DOMAIN store.files = 1 .. Len(store.files)
        /\ FilesOf(store) \subseteq Files
    BY StrategyFacts DEF TypeInv, TypeOK
  <1>b. Empty \in File
    BY DEF Empty
  <1>c. \A c \in Captures : Chosen(c) => Staging(c) \in Staged
    BY <1>a DEF TypeInv, Staging, Staged
  <1>1. ASSUME NEW c \in Captures, Begin(c)
        PROVE  TypeInv'
    <2>1. PICK x \in Contents, force \in BOOLEAN :
            job' = [job EXCEPT ![c] = [NoJob EXCEPT !.content = x, !.force = force]]
      BY <1>1 DEF Begin
    <2>2. /\ [NoJob EXCEPT !.content = x, !.force = force] \in Jobs
           /\ [NoJob EXCEPT !.content = x, !.force = force].content \in Contents
      BY NewJob
    <2>3. job' \in [Captures -> Jobs] /\ \A d \in Captures \ {c} : job'[d] = job[d]
      BY <2>1, <2>2 DEF TypeInv, TypeOK
    <2>4. pc' \in [Captures -> Stages] /\ ~Chosen(c)' /\ \A d \in Captures \ {c} : pc'[d] = pc[d]
      BY <1>1 DEF Begin, To, TypeInv, TypeOK, Chosen, Stages
    <2>5. attempts' \in 0 .. MaxAttempts
      BY <1>1 DEF Begin, TypeInv, TypeOK
    <2>6. job'[c].content \in Contents
      BY <2>1, <2>2 DEF TypeInv, TypeOK
    <2>10. TypeOK'
      BY <1>1, <2>3, <2>4, <2>5, <2>6 DEF Begin, TypeInv, TypeOK, disk
    <2>11. \A d \in Captures : pc'[d] # "off" => job'[d].content \in Contents
      BY <1>1, <2>3, <2>4, <2>5, <2>6 DEF Begin, TypeInv, TypeOK
    <2>12. \A d \in Captures : Chosen(d)' => job'[d].version \in Versions
      BY <1>1, <2>3, <2>4, <2>5, <2>6 DEF Begin, TypeInv, TypeOK, Chosen
    <2> QED BY <2>10, <2>11, <2>12 DEF TypeInv
  <1>2. ASSUME NEW c \in Captures, Unchanged(c)
        PROVE  TypeInv'
    <2>1. latest.version \in 0 .. MaxAttempts /\ job[c].content \in Contents \cup {Missing}
      BY <1>2 DEF Unchanged, Same, Pointer, TypeInv, TypeOK, Jobs, Versions
    <2> QED BY <1>2, <2>1, EndTyped
        DEF Unchanged, TypeInv, TypeOK, disk, bounds, ResultType
  <1>3. ASSUME NEW c \in Captures, LatestUnreadable(c) \/ BundleExists(c)
        PROVE  TypeInv'
    BY <1>3, FailTyped DEF LatestUnreadable, BundleExists, TypeInv, TypeOK, disk, bounds, ResultType
  <1>4. ASSUME NEW c \in Captures, ChooseVersion(c)
        PROVE  TypeInv'
    <2>1. NextVersion \in 0 .. MaxAttempts
      BY <1>4 DEF ChooseVersion, Versions
    <2>2. job' \in [Captures -> Jobs]
      BY <1>4, <2>1, JobsTyped DEF ChooseVersion, TypeInv, TypeOK
    <2>3. /\ job'[c].version \in Versions
          /\ \A d \in Captures : job'[d].content = job[d].content
          /\ \A d \in Captures \ {c} : job'[d].version = job[d].version
      BY <1>4 DEF ChooseVersion, TypeInv, TypeOK, Jobs
    <2> QED BY <1>4, <2>2, <2>3 DEF ChooseVersion, To, TypeInv, TypeOK, Chosen, Stages, disk, bounds
  <1>5. ASSUME NEW c \in Captures, Prepare(c)
        PROVE  TypeInv'
    <2>1. /\ pc' \in [Captures -> Stages]
          /\ \A d \in Captures : Chosen(d)' => Chosen(d)
          /\ \A d \in Captures : pc'[d] # "off" => pc[d] # "off"
      BY <1>5 DEF Prepare, To, TypeInv, TypeOK, Chosen, Stages
    <2>2. staging' \in [Staged -> File]
      BY <1>5, <1>b DEF Prepare, TypeInv, TypeOK
    <2>10. TypeOK'
      BY <1>5, <2>1, <2>2 DEF Prepare, TypeInv, TypeOK, bounds
    <2>11. \A d \in Captures : pc'[d] # "off" => job'[d].content \in Contents
      BY <1>5, <2>1, <2>2 DEF Prepare, TypeInv, bounds
    <2>12. \A d \in Captures : Chosen(d)' => job'[d].version \in Versions
      BY <1>5, <2>1, <2>2 DEF Prepare, TypeInv, bounds
    <2> QED BY <2>10, <2>11, <2>12 DEF TypeInv
  <1>6. ASSUME NEW c \in Captures, StageFile(c)
        PROVE  TypeInv'
    <2>0. job[c].staged + 1 \in Nat
      BY DEF TypeInv, TypeOK, Jobs
    <2>1. job' \in [Captures -> Jobs]
      BY <1>6, <2>0, JobsTyped DEF StageFile, TypeInv, TypeOK
    <2>4. \A d \in Captures : /\ job'[d].version = job[d].version
                              /\ job'[d].content = job[d].content
      BY <1>6, OneFieldKeeps DEF StageFile, TypeInv, TypeOK
    <2>2. staging' \in [Staged -> File]
      BY <1>6 DEF StageFile, TypeInv, TypeOK, Jobs
    <2>3. \A d \in Captures : Chosen(d)' <=> Chosen(d)
      BY <1>6 DEF StageFile, Chosen
    <2> QED BY <1>6, <2>1, <2>2, <2>3, <2>4 DEF StageFile, TypeInv, TypeOK, bounds
  <1>7. ASSUME NEW c \in Captures, Publish(c)
        PROVE  TypeInv'
    <2>1. staging[Staging(c)] \in File
      BY <1>7, <1>c DEF Publish, Chosen, TypeInv, TypeOK
    <2> QED BY <1>7, <2>1, <1>b DEF Publish, To, TypeInv, TypeOK, Chosen, Stages, bounds
  <1>8. ASSUME NEW c \in Captures, StagingFails(c)
        PROVE  TypeInv'
    <2>1. faults' \in 0 .. MaxFaults
      BY <1>8 DEF StagingFails, TypeInv, TypeOK
    <2>2. staging' \in [Staged -> File]
      BY <1>8, <1>b DEF StagingFails, TypeInv, TypeOK
    <2>3. Fail(c) /\ TypeOK
      BY <1>8 DEF StagingFails, TypeInv
    <2> QED BY <1>8, <2>1, <2>2, <2>3, FailTyped DEF StagingFails, TypeInv, TypeOK, ResultType
  <1>9. ASSUME NEW c \in Captures, ReadHistory(c)
        PROVE  TypeInv'
    <2>1. Append(IF history = Missing THEN <<>> ELSE history, job[c].version) \in Seq(Nat)
      BY <1>9 DEF ReadHistory, TypeInv, TypeOK, Jobs
    <2>2. job' \in [Captures -> Jobs]
      BY <1>9, <2>1, JobsTyped DEF ReadHistory, TypeInv, TypeOK
    <2>4. \A d \in Captures : /\ job'[d].version = job[d].version
                              /\ job'[d].content = job[d].content
      BY <1>9, OneFieldKeeps DEF ReadHistory, TypeInv, TypeOK
    <2>3. /\ pc' \in [Captures -> Stages]
          /\ \A d \in Captures : Chosen(d)' => Chosen(d)
          /\ \A d \in Captures : pc'[d] # "off" => pc[d] # "off"
      BY <1>9 DEF ReadHistory, To, TypeInv, TypeOK, Chosen, Stages
    <2>10. TypeOK'
      BY <1>9, <2>2, <2>3, <2>4 DEF ReadHistory, TypeInv, TypeOK, disk, bounds
    <2>11. \A d \in Captures : pc'[d] # "off" => job'[d].content \in Contents
      BY <1>9, <2>2, <2>3, <2>4 DEF ReadHistory, TypeInv, bounds, disk
    <2>12. \A d \in Captures : Chosen(d)' => job'[d].version \in Versions
      BY <1>9, <2>2, <2>3, <2>4 DEF ReadHistory, TypeInv, bounds, disk
    <2> QED BY <2>10, <2>11, <2>12 DEF TypeInv
  <1>10. ASSUME NEW c \in Captures, OpenHistory(c) \/ OpenLatest(c)
         PROVE  TypeInv'
    BY <1>10 DEF OpenHistory, OpenLatest, To, TypeInv, TypeOK, Chosen, Stages, bounds
  <1>11. ASSUME NEW c \in Captures, FillHistory(c)
         PROVE  TypeInv'
    <2>1. job[c].history \in Seq(Nat)
      BY DEF TypeInv, TypeOK, Jobs
    <2> QED BY <1>11, <2>1, <1>a DEF FillHistory, To, TypeInv, TypeOK, Chosen, Stages, bounds
  <1>12. ASSUME NEW c \in Captures, FillLatest(c)
         PROVE  TypeInv'
    <2>1. /\ pc' \in [Captures -> Stages]
          /\ \A d \in Captures : Chosen(d)' => Chosen(d)
          /\ \A d \in Captures : pc'[d] # "off" => pc[d] # "off"
      BY <1>12, <1>a DEF FillLatest, To, TypeInv, TypeOK, Chosen, Stages
    <2>2. job[c].version \in Versions /\ job[c].content \in Contents
      BY <1>12, <1>a DEF FillLatest, TypeInv, Chosen
    <2>10. TypeOK'
      BY <1>12, <2>1, <2>2 DEF FillLatest, TypeInv, TypeOK, bounds
    <2>11. \A d \in Captures : pc'[d] # "off" => job'[d].content \in Contents
      BY <1>12, <2>1, <2>2 DEF FillLatest, TypeInv, bounds
    <2>12. \A d \in Captures : Chosen(d)' => job'[d].version \in Versions
      BY <1>12, <2>1, <2>2 DEF FillLatest, TypeInv, bounds
    <2> QED BY <2>10, <2>11, <2>12 DEF TypeInv
  <1>13. ASSUME NEW c \in Captures, Finish(c)
         PROVE  TypeInv'
    <2>1. job[c] \in Jobs
      BY DEF TypeInv, TypeOK
    <2>2. job[c].version \in 0 .. MaxAttempts /\ job[c].content \in Contents \cup {Missing}
      BY <2>1 DEF Jobs
    <2> QED BY <1>13, <2>2, EndTyped, FailTyped
        DEF Finish, TypeInv, TypeOK, disk, bounds, ResultType
  <1>14. ASSUME NEW c \in Captures, Kill(c)
         PROVE  TypeInv'
    <2>1. faults' \in 0 .. MaxFaults
      BY <1>14 DEF Kill, TypeInv, TypeOK
    <2> QED BY <1>14, <2>1, FailTyped DEF Kill, TypeInv, TypeOK, disk, ResultType
  <1>15. ASSUME Damage
         PROVE  TypeInv'
    <2>1. damage' \subseteq Versions \X Files \X {Lost, Altered}
      BY <1>15, <1>a DEF Damage, TypeInv, TypeOK
    <2> QED BY <1>15, <2>1 DEF Damage, TypeInv, TypeOK, Chosen, disk, bounds
  <1>16. ASSUME VerifyCommand
         PROVE  TypeInv'
    <2>1. report' \in [version: 0 .. MaxAttempts, status: {"none", "pass", "fail", "raised"}]
      BY <1>16 DEF VerifyCommand, Versions
    <2> QED BY <1>16, <2>1 DEF VerifyCommand, TypeInv, TypeOK, Chosen, disk, bounds
  <1>17. CASE UNCHANGED vars
    BY <1>17 DEF vars, TypeInv, TypeOK, Chosen, disk, bounds
  <1> QED
    BY <1>1, <1>2, <1>3, <1>4, <1>5, <1>6, <1>7, <1>8, <1>9, <1>10, <1>11, <1>12, <1>13, <1>14,
       <1>15, <1>16, <1>17 DEF Next, Persist

(* The latest pointer, the history and every capture stay in their domains *)
(* and the number of a version within the number of attempts.              *)
THEOREM TypeCorrect == Spec => []TypeOK
  <1>1. TypeInv => TypeOK
    BY DEF TypeInv
  <1> QED BY TypeInit, TypeStep, <1>1, PTL DEF Spec
-----------------------------------------------------------------------------
(* Every file of version v was made from content x. *)
Whole(v, x) == \A f \in FilesOf(store) : bundles[v][f] = x

Kept(v, x) == Published(v) /\ Whole(v, x)

(* What a capture has staged is of its content. *)
Filled(c) ==
  /\ job[c].staged <= Len(store.files)
  /\ \A i \in 1 .. job[c].staged : staging[Staging(c)][store.files[i]] = job[c].content

CaptureInv(c) ==
  /\ pc[c] \in {"reading", "checking"} => job[c].staged = 0
  /\ pc[c] = "staging" => Filled(c)
  /\ pc[c] \in {"checking", "staging"} =>
       job[c].version = 1 \/ Published(job[c].version - 1)
  /\ Chosen(c) /\ pc[c] \notin {"checking", "staging"} => Kept(job[c].version, job[c].content)

(* Where captures share a staging directory there is one of them. *)
Alone == ~store.atomic => \A c, d \in Captures : pc[c] # "off" /\ pc[d] # "off" => c = d

(* The versions that are published are 1 .. n, and each is whole. *)
UpTo(n) == \A v \in Versions : Published(v) <=> v <= n

ArchiveInv ==
  /\ TypeInv
  /\ Alone
  /\ \A c \in Captures : CaptureInv(c)
  /\ \E n \in 0 .. MaxAttempts : UpTo(n)
  /\ \A v \in Versions : Published(v) => \E x \in Contents : Whole(v, x)
  /\ Pointer => Kept(latest.version, latest.content)

Act(c) == Begin(c) \/ Persist(c) \/ Kill(c)

LEMMA FrameStep ==
  ASSUME TypeInv, NEW c \in Captures, Act(c)
  PROVE  /\ store' = store
         /\ \A d \in Captures \ {c} : pc'[d] = pc[d] /\ job'[d] = job[d]
  <1> USE DEF TypeInv, TypeOK, To, End, Fail
  <1>1. CASE Begin(c) \/ Kill(c)
    BY <1>1 DEF Begin, Kill
  <1>2. CASE Unchanged(c) \/ LatestUnreadable(c) \/ ChooseVersion(c) \/ BundleExists(c)
    BY <1>2 DEF Unchanged, LatestUnreadable, ChooseVersion, BundleExists
  <1>3. CASE Prepare(c) \/ StageFile(c) \/ Publish(c) \/ StagingFails(c)
    BY <1>3 DEF Prepare, StageFile, Publish, StagingFails
  <1>4. CASE ReadHistory(c) \/ OpenHistory(c) \/ FillHistory(c)
    BY <1>4 DEF ReadHistory, OpenHistory, FillHistory
  <1>5. CASE OpenLatest(c) \/ FillLatest(c) \/ Finish(c)
    BY <1>5 DEF OpenLatest, FillLatest, Finish
  <1> QED BY <1>1, <1>2, <1>3, <1>4, <1>5 DEF Act, Persist

(* Only a capture that publishes a new version touches the bundles. *)
LEMMA BundlesStep ==
  ASSUME TypeInv, NEW c \in Captures, Act(c)
  PROVE  bundles' = bundles \/ Publish(c)
  BY DEF Act, Persist, Begin, Kill, Unchanged, LatestUnreadable, ChooseVersion, BundleExists,
    Prepare, StageFile, StagingFails, ReadHistory, OpenHistory, FillHistory, OpenLatest,
    FillLatest, Finish, disk

(* What is published stays as it is. *)
LEMMA KeptStep ==
  ASSUME TypeInv, NEW c \in Captures, Act(c)
  PROVE  /\ \A v \in Versions : Published(v) => bundles'[v] = bundles[v] /\ Published(v)'
         /\ \A v \in Versions, x \in Contents : Kept(v, x) => Kept(v, x)'
         /\ \A v \in Versions, x \in Contents : Published(v) /\ Whole(v, x) => Whole(v, x)'
  <1>1. \A v \in Versions : Published(v) => bundles'[v] = bundles[v]
    BY BundlesStep DEF Publish, CanRename, TypeInv, TypeOK
  <1> QED BY <1>1, FrameStep DEF Published, Kept, Whole

(* Another capture's staging directory is left alone. *)
LEMMA StagingStep ==
  ASSUME TypeInv, Alone, NEW c \in Captures, Act(c), NEW d \in Captures \ {c}, pc[d] = "staging"
  PROVE  staging'[Staging(d)] = staging[Staging(d)] /\ Staging(d)' = Staging(d)
  <1>1. Staging(d)' = Staging(d)
    BY FrameStep DEF Staging
  <1>2. \/ staging' = staging
        \/ pc[c] # "off" /\ \A s \in Staged \ {Staging(c)} : staging'[s] = staging[s]
    <2>1. CASE Prepare(c) \/ StageFile(c) \/ Publish(c) \/ StagingFails(c)
      BY <2>1 DEF Prepare, StageFile, Publish, StagingFails, TypeInv, TypeOK
    <2> QED
      BY <2>1 DEF Act, Persist, Begin, Kill, Unchanged, LatestUnreadable, ChooseVersion,
        BundleExists, ReadHistory, OpenHistory, FillHistory, OpenLatest, FillLatest, Finish, disk
  <1>3. pc[c] # "off" => Staging(d) # Staging(c) /\ Staging(d) \in Staged
    BY StrategyFacts DEF Alone, Staging, Staged, TypeInv, TypeOK, Chosen
  <1> QED BY <1>1, <1>2, <1>3

(* The captures that do not act keep their invariant. *)
LEMMA OthersStep ==
  ASSUME ArchiveInv, NEW c \in Captures, Act(c), NEW d \in Captures \ {c}
  PROVE  CaptureInv(d)'
  <1>1. /\ pc'[d] = pc[d] /\ job'[d] = job[d] /\ store' = store
        /\ CaptureInv(d) /\ TypeInv /\ Alone
    BY FrameStep DEF ArchiveInv
  <1>2. pc[d] = "staging" => Filled(d)'
    BY <1>1, StagingStep DEF CaptureInv, Filled
  <1>3. pc[d] \in {"checking", "staging"} => job[d].version = 1 \/ Published(job[d].version - 1)'
    <2> HAVE pc[d] \in {"checking", "staging"}
    <2>1. job[d].version \in Versions
      BY <1>1 DEF TypeInv, Chosen
    <2>2. job[d].version # 1 => job[d].version - 1 \in Versions
      BY <2>1, ConstantsAssumption DEF Versions, ConstantsAssumption
    <2> QED BY <1>1, <2>2, KeptStep DEF CaptureInv
  <1>4. Chosen(d) /\ pc[d] \notin {"checking", "staging"} => Kept(job[d].version, job[d].content)'
    BY <1>1, KeptStep DEF CaptureInv, TypeInv, Chosen
  <1> QED BY <1>1, <1>2, <1>3, <1>4 DEF CaptureInv, Chosen

LEMMA ContentHeld == TypeInv => \A c \in Captures : Chosen(c) => job[c].content \in Contents
  BY DEF TypeInv, Chosen

(* The staging directory of a capture that has staged everything. *)
LEMMA AllFilled ==
  ASSUME TypeInv, NEW c \in Captures, Filled(c), AllStaged(c)
  PROVE  \A f \in FilesOf(store) : staging[Staging(c)][f] = job[c].content
  <1> SUFFICES ASSUME NEW f \in FilesOf(store)
               PROVE  staging[Staging(c)][f] = job[c].content
    OBVIOUS
  <1>1. DOMAIN store.files = 1 .. Len(store.files)
    BY StrategyFacts DEF TypeInv, TypeOK
  <1>2. PICK i \in 1 .. Len(store.files) : f = store.files[i]
    BY <1>1 DEF FilesOf
  <1> QED BY <1>2 DEF Filled, AllStaged

LEMMA SelfStep ==
  ASSUME ArchiveInv, NEW c \in Captures, Act(c)
  PROVE  CaptureInv(c)'
  <1> USE DEF To
  <1>0. TypeInv /\ CaptureInv(c) /\ store' = store /\ pc \in [Captures -> Stages]
        /\ job \in [Captures -> Jobs]
    BY FrameStep DEF ArchiveInv, TypeInv, TypeOK
  <1>1. CASE pc'[c] = "off"
    BY <1>1 DEF CaptureInv, Chosen
  <1>2. CASE Begin(c)
    <2>1. job'[c].staged = 0 /\ pc'[c] = "reading"
      <3>1. PICK x \in Contents, force \in BOOLEAN :
              job' = [job EXCEPT ![c] = [NoJob EXCEPT !.content = x, !.force = force]]
        BY <1>2 DEF Begin
      <3>2. job'[c] = [NoJob EXCEPT !.content = x, !.force = force]
        BY <1>0, <3>1
      <3>3. [NoJob EXCEPT !.content = x, !.force = force].staged = 0
        BY NewJob
      <3>4. pc'[c] = "reading"
        BY <1>0, <1>2 DEF Begin
      <3> QED BY <3>2, <3>3, <3>4
    <2> QED BY <2>1 DEF CaptureInv, Chosen
  <1>3. CASE ChooseVersion(c)
    <2>1. pc'[c] = "checking" /\ job'[c].staged = 0 /\ job'[c].version = NextVersion
      BY <1>0, <1>3 DEF ChooseVersion, CaptureInv, Jobs
    <2>2. NextVersion = 1 \/ Published(NextVersion - 1)
      BY ConstantsAssumption
      DEF NextVersion, ArchiveInv, Pointer, Kept, TypeInv, TypeOK, Versions, ConstantsAssumption
    <2>3. bundles' = bundles
      BY <1>3 DEF ChooseVersion, disk
    <2> QED BY <2>1, <2>2, <2>3 DEF CaptureInv, Chosen, Published
  <1>4. CASE Prepare(c)
    <2>1. pc'[c] = "staging" /\ job' = job /\ job[c].staged = 0 /\ bundles' = bundles
      BY <1>0, <1>4 DEF Prepare, CaptureInv
    <2>2. Len(store.files) \in Nat
      BY <1>0, StrategyFacts DEF TypeInv, TypeOK
    <2> QED BY <1>0, <1>4, <2>1, <2>2 DEF CaptureInv, Chosen, Filled, Published, Prepare
  <1>5. CASE StageFile(c)
    <2>1. /\ pc[c] = "staging" /\ pc' = pc /\ bundles' = bundles
          /\ job'[c].staged = job[c].staged + 1
          /\ job'[c].version = job[c].version /\ job'[c].content = job[c].content
          /\ Staging(c)' = Staging(c)
      BY <1>0, <1>5 DEF StageFile, Jobs, Staging
    <2>2. Filled(c)'
      <3>1. Staging(c) \in Staged /\ job[c].version \in Versions
        BY <1>0, <2>1, StrategyFacts DEF Staging, Staged, TypeInv, TypeOK, Chosen
      <3>2. /\ Len(store.files) \in Nat /\ DOMAIN store.files = 1 .. Len(store.files)
            /\ \A i \in 1 .. Len(store.files) : store.files[i] \in Files
        BY <1>0, StrategyFacts DEF FilesOf, TypeInv, TypeOK
      <3>3. job[c].staged \in Nat /\ job[c].staged # Len(store.files) /\ Filled(c)
        BY <1>0, <1>5, <2>1 DEF Jobs, StageFile, AllStaged, CaptureInv
      <3>4. \A f \in Files : staging'[Staging(c)][f] =
               IF f = store.files[job[c].staged + 1] THEN job[c].content ELSE staging[Staging(c)][f]
        BY <1>0, <1>5, <3>1, <3>2, <3>3 DEF StageFile, Filled, TypeInv, TypeOK
      <3>5. ASSUME NEW i \in 1 .. job[c].staged + 1
            PROVE  staging'[Staging(c)][store.files[i]] = job[c].content
        <4>1. store.files[i] \in Files
          BY <3>2, <3>3 DEF Filled
        <4>2. i # job[c].staged + 1 => staging[Staging(c)][store.files[i]] = job[c].content
          BY <3>3 DEF Filled
        <4> QED BY <3>4, <4>1, <4>2
      <3> QED BY <1>0, <2>1, <3>2, <3>3, <3>5 DEF Filled
    <2> QED BY <1>0, <2>1, <2>2 DEF CaptureInv, Chosen, Published
  <1>6. CASE Publish(c)
    <2>1. /\ pc[c] = "staging" /\ pc'[c] = "history" /\ job' = job
          /\ job[c].version \in Versions
      BY <1>0, <1>6 DEF Publish, TypeInv, Chosen
    <2>2. bundles'[job[c].version] = staging[Staging(c)] /\ staging[Staging(c)] # Empty
      BY <1>0, <1>6, <2>1 DEF Publish, CanRename, TypeInv, TypeOK
    <2>3. \A f \in FilesOf(store) : staging[Staging(c)][f] = job[c].content
      BY <1>0, <1>6, <2>1, AllFilled DEF Publish, CaptureInv
    <2> QED BY <1>0, <2>1, <2>2, <2>3 DEF CaptureInv, Chosen, Kept, Whole, Published
  <1>7. CASE ReadHistory(c)
    <2>1. /\ pc[c] = "history" /\ pc'[c] = "history-open" /\ bundles' = bundles
          /\ job'[c].version = job[c].version /\ job'[c].content = job[c].content
      BY <1>0, <1>7 DEF ReadHistory, disk, Jobs
    <2> QED BY <1>0, <2>1 DEF CaptureInv, Chosen, Kept, Whole, Published
  <1>8. CASE OpenHistory(c) \/ FillHistory(c) \/ OpenLatest(c) \/ FillLatest(c)
    <2>1. /\ pc[c] \in {"history-open", "history-fill", "latest-open", "latest-fill"}
          /\ pc'[c] \in {"history-fill", "latest-open", "latest-fill", "verify"}
          /\ job' = job /\ bundles' = bundles
      BY <1>0, <1>8 DEF OpenHistory, FillHistory, OpenLatest, FillLatest
    <2> QED BY <1>0, <2>1 DEF CaptureInv, Chosen, Kept, Whole, Published
  <1>9. CASE Unchanged(c) \/ LatestUnreadable(c) \/ BundleExists(c) \/ StagingFails(c)
             \/ Finish(c) \/ Kill(c)
    <2>1. pc'[c] = "off"
      BY <1>0, <1>9 DEF Unchanged, LatestUnreadable, BundleExists, StagingFails, Finish, Kill,
        Fail, End
    <2> QED BY <1>1, <2>1
  <1> QED
    BY <1>2, <1>3, <1>4, <1>5, <1>6, <1>7, <1>8, <1>9 DEF Act, Persist

LEMMA ArchiveInit == Init => ArchiveInv
  <1> SUFFICES ASSUME Init PROVE ArchiveInv
    OBVIOUS
  <1>1. \A v \in Versions : ~Published(v)
    BY DEF Init, Published
  <1>2. 0 \in 0 .. MaxAttempts /\ UpTo(0)
    BY <1>1, ConstantsAssumption DEF UpTo, Versions, ConstantsAssumption
  <1> QED BY <1>1, <1>2, TypeInit DEF Init, ArchiveInv, Alone, CaptureInv, Chosen, Pointer

LEMMA AloneStep ==
  ASSUME ArchiveInv, Overlapping \subseteq {"filesystem"}, NEW c \in Captures, Act(c)
  PROVE  Alone'
  <1>1. TypeInv /\ Alone /\ store' = store /\ \A d \in Captures \ {c} : pc'[d] = pc[d]
    BY FrameStep DEF ArchiveInv
  <1>2. CASE Begin(c)
    <2>1. store.atomic \/ \A d \in Captures : pc[d] = "off"
      BY <1>1, <1>2, StrategyFacts DEF Begin, TypeInv, TypeOK
    <2> QED BY <1>1, <2>1 DEF Alone
  <1>3. CASE pc[c] # "off"
    BY <1>1, <1>3 DEF Alone
  <1>4. Begin(c) \/ pc[c] # "off"
    BY DEF Act, Persist, Kill, Unchanged, LatestUnreadable, ChooseVersion, BundleExists, Prepare,
      StageFile, Publish, StagingFails, ReadHistory, OpenHistory, FillHistory, OpenLatest,
      FillLatest, Finish
  <1> QED BY <1>2, <1>3, <1>4

(* What is published is the next version, made from what was captured. *)
LEMMA PublishStep ==
  ASSUME ArchiveInv, NEW c \in Captures, Publish(c), NEW n \in 0 .. MaxAttempts, UpTo(n)
  PROVE  /\ n + 1 \in Versions /\ UpTo(n + 1)' /\ job[c].version = n + 1
         /\ job[c].content \in Contents /\ Whole(n + 1, job[c].content)'
         /\ \A v \in Versions \ {n + 1} : bundles'[v] = bundles[v]
  <1>1. /\ TypeInv /\ CaptureInv(c) /\ pc[c] = "staging" /\ Chosen(c)
        /\ store' = store /\ job' = job
    BY DEF ArchiveInv, Publish, Chosen
  <1>2. job[c].version \in Versions /\ job[c].content \in Contents
    BY <1>1, ContentHeld DEF TypeInv
  <1>3. ~Published(job[c].version)
    BY DEF Publish, CanRename
  <1>4. job[c].version = n + 1
    <2>1. job[c].version > n
      BY <1>2, <1>3, ConstantsAssumption DEF UpTo, Versions, ConstantsAssumption
    <2>2. job[c].version = 1 \/ job[c].version - 1 <= n
      <3>1. job[c].version # 1 => job[c].version - 1 \in Versions
        BY <1>2, ConstantsAssumption DEF Versions, ConstantsAssumption
      <3> QED BY <1>1, <3>1 DEF UpTo, CaptureInv
    <2> QED BY <1>2, <2>1, <2>2, ConstantsAssumption DEF Versions, ConstantsAssumption
  <1>5. bundles' = [bundles EXCEPT ![n + 1] = staging[Staging(c)]] /\ staging[Staging(c)] # Empty
    BY <1>4 DEF Publish, CanRename
  <1>6. \A f \in FilesOf(store) : staging[Staging(c)][f] = job[c].content
    BY <1>1, AllFilled DEF Publish, CaptureInv
  <1>7. \A v \in Versions : bundles'[v] = IF v = n + 1 THEN staging[Staging(c)] ELSE bundles[v]
    BY <1>1, <1>5 DEF TypeInv, TypeOK
  <1>8. UpTo(n + 1)'
    BY <1>2, <1>4, <1>5, <1>7, ConstantsAssumption DEF UpTo, Published, Versions, ConstantsAssumption
  <1> QED BY <1>1, <1>2, <1>4, <1>6, <1>7, <1>8 DEF Whole

LEMMA ArchiveStep ==
  ASSUME Overlapping \subseteq {"filesystem"}
  PROVE  ArchiveInv /\ [Next]_vars => ArchiveInv'
  <1> SUFFICES ASSUME ArchiveInv, [Next]_vars PROVE ArchiveInv'
    OBVIOUS
  <1>1. TypeInv'
    BY TypeStep DEF ArchiveInv
  <1>2. ASSUME NEW c \in Captures, Act(c)
        PROVE  ArchiveInv'
    <2>0. TypeInv /\ store' = store
      BY <1>2, FrameStep DEF ArchiveInv
    <2>1. Alone' /\ \A d \in Captures : CaptureInv(d)'
      BY <1>2, AloneStep, OthersStep, SelfStep
    <2>2. PICK n \in 0 .. MaxAttempts : UpTo(n)
      BY DEF ArchiveInv
    <2>3. /\ \E m \in 0 .. MaxAttempts : UpTo(m)'
          /\ \A v \in Versions : Published(v)' => \E x \in Contents : Whole(v, x)'
      <3>1. CASE bundles' = bundles
        BY <2>0, <2>2, <3>1 DEF UpTo, Published, Whole, ArchiveInv
      <3>2. CASE Publish(c)
        <4>1. n + 1 \in 0 .. MaxAttempts /\ UpTo(n + 1)'
          BY <2>2, <3>2, PublishStep, ConstantsAssumption DEF Versions, ConstantsAssumption
        <4>2. \A v \in Versions \ {n + 1} : Published(v)' => \E x \in Contents : Whole(v, x)'
          BY <2>0, <2>2, <3>2, PublishStep DEF Published, Whole, ArchiveInv
        <4>3. \E x \in Contents : Whole(n + 1, x)'
          BY <2>2, <3>2, PublishStep DEF Publish
        <4> QED BY <4>1, <4>2, <4>3
      <3> QED BY <1>2, <2>0, <3>1, <3>2, BundlesStep
    <2>4. Pointer' => Kept(latest.version, latest.content)'
      <3> HAVE Pointer'
      <3>1. CASE latest' = latest
        <4>1. Pointer /\ latest.version \in Versions /\ latest.content \in Contents
          BY <2>0, <3>1 DEF Pointer, TypeInv, TypeOK
        <4> QED BY <1>2, <2>0, <3>1, <4>1, KeptStep DEF ArchiveInv
      <3>2. CASE FillLatest(c)
        <4>1. Chosen(c) /\ pc[c] \notin {"checking", "staging"} /\ CaptureInv(c)
          BY <3>2 DEF FillLatest, Chosen, ArchiveInv
        <4>2. Kept(job[c].version, job[c].content) /\ bundles' = bundles
          BY <3>2, <4>1 DEF CaptureInv, FillLatest
        <4>3. latest'.version = job[c].version /\ latest'.content = job[c].content
          BY <3>2 DEF FillLatest
        <4> QED BY <2>0, <4>2, <4>3 DEF Kept, Whole, Published
      <3>3. CASE OpenLatest(c)
        BY <3>3 DEF OpenLatest, Pointer
      <3> QED
        BY <1>2, <3>1, <3>2, <3>3 DEF Act, Persist, Begin, Kill, Unchanged, LatestUnreadable,
          ChooseVersion, BundleExists, Prepare, StageFile, Publish, StagingFails, ReadHistory,
          OpenHistory, FillHistory, Finish, disk
    <2> QED BY <1>1, <2>1, <2>3, <2>4 DEF ArchiveInv
  <1>3. CASE UNCHANGED <<store, disk, pc, job>>
    <2>1. /\ store' = store /\ bundles' = bundles /\ staging' = staging /\ latest' = latest
          /\ pc' = pc /\ job' = job
      BY <1>3 DEF disk
    <2>2. Alone' /\ \A c \in Captures : CaptureInv(c)'
      BY <2>1 DEF ArchiveInv, Alone, CaptureInv, Chosen, Filled, Staging, Kept, Whole, Published
    <2> QED BY <1>1, <2>1, <2>2 DEF ArchiveInv, UpTo, Published, Whole, Kept, Pointer
  <1>4. CASE Damage \/ VerifyCommand \/ UNCHANGED vars
    BY <1>3, <1>4 DEF Damage, VerifyCommand, vars
  <1> QED BY <1>2, <1>4 DEF Next, Act

(* latest.json names only versions that are there and whole, however       *)
(* captures are killed, for any number of captures that overlap in the     *)
(* filesystem store and follow one another in the others.                  *)
THEOREM LatestAlwaysSealed ==
  ASSUME Overlapping \subseteq {"filesystem"}
  PROVE  Spec => []LatestSealed
  <1>1. ArchiveInv => LatestSealed
    BY DEF ArchiveInv, LatestSealed, Kept, Whole
  <1> QED BY ArchiveInit, ArchiveStep, <1>1, PTL DEF Spec
-----------------------------------------------------------------------------
(* What latest.json names, if anything. *)
Last == IF Pointer THEN latest.version ELSE 0

(* version-history.json lists the versions up to n. *)
Upto(n) == [v \in 1 .. n |-> v]
Listed(n) == history = IF n = 0 THEN Missing ELSE Upto(n)

(* Between publishing a version and naming it in latest.json. *)
Recording(c) ==
  pc[c] \in {"history", "history-open", "history-fill", "latest-open", "latest-fill"}

(* Of the n versions published the last may be unnamed, and then nothing   *)
(* more is published: a capture chooses a number that is taken.  So one    *)
(* capture at most is recording, and it is that of version n.              *)
PointerInv(n) ==
  /\ latest # Torn => Last \in {n - 1, n}
  /\ latest = Torn => n > 0 /\ ~store.atomic
  /\ history = Torn => n > 0 /\ ~store.atomic
  /\ \A c \in Captures : pc[c] \in {"checking", "staging"} =>
       latest # Torn /\ job[c].version <= Last + 1
  /\ \A c \in Captures : Recording(c) =>
       /\ job[c].version = n
       /\ IF pc[c] = "latest-fill" THEN latest = Torn ELSE latest # Torn /\ Last = n - 1
  /\ \A c, d \in Captures : Recording(c) /\ Recording(d) => c = d

(* The history is behind the versions by the one not yet recorded. *)
HistoryInv(n) ==
  /\ \A c \in Captures :
       /\ pc[c] \in {"history", "history-open"} => Listed(n - 1)
       /\ pc[c] \in {"history-open", "history-fill"} => job[c].history = Upto(n)
       /\ pc[c] = "history-fill" => history = Torn
       /\ pc[c] \in {"latest-open", "latest-fill"} => Listed(n)
  /\ latest = Torn \/ Last = n => Listed(n)
  /\ Listed(n - 1) \/ Listed(n) \/ history = Torn

(* The filesystem's captures may overlap, the others' share their staging. *)
RecordInv ==
  /\ ArchiveInv
  /\ \E n \in 0 .. MaxAttempts : UpTo(n) /\ PointerInv(n) /\ HistoryInv(n)

LEMMA UptoFacts ==
  ASSUME NEW n \in Nat
  PROVE  /\ Upto(n) \in Seq(Nat) /\ Len(Upto(n)) = n
         /\ Upto(n) \notin {Missing, Torn}
         /\ Append(Upto(n), n + 1) = Upto(n + 1)
         /\ Append(<<>>, 1) = Upto(1)
  <1>1. Upto(n) \in Seq(Nat) /\ Len(Upto(n)) = n
    BY DEF Upto
  <1>2. Append(Upto(n), n + 1) = Upto(n + 1)
    BY DEF Upto
  <1>3. Append(<<>>, 1) = Upto(1)
    BY DEF Upto
  <1> QED BY <1>1, <1>2, <1>3, UnreadableAssumption DEF UnreadableAssumption

(* The steps that leave the files alone and record nothing. *)
Settled ==
  /\ UNCHANGED <<store, bundles, latest, history>>
  /\ \A d \in Captures :
       \/ pc'[d] \in {"off", "reading", "verify"}
       \/ /\ pc[d] \in {"checking", "staging"} /\ pc'[d] \in {"checking", "staging"}
          /\ job'[d].version = job[d].version
       \/ pc'[d] = pc[d] /\ job'[d] = job[d]

LEMMA SettledSteps ==
  ASSUME TypeInv, [Next]_vars
  PROVE  \/ Settled
         \/ \E c \in Captures :
              \/ ChooseVersion(c) \/ Publish(c) \/ ReadHistory(c) \/ OpenHistory(c)
              \/ FillHistory(c) \/ OpenLatest(c) \/ FillLatest(c)
  <1> USE DEF Settled, To, disk
  <1>0. pc \in [Captures -> Stages] /\ job \in [Captures -> Jobs]
    BY DEF TypeInv, TypeOK
  <1>1. ASSUME NEW c \in Captures, Begin(c) PROVE Settled
    <2>1. pc'[c] = "reading"
      BY <1>0, <1>1 DEF Begin
    <2>2. \A d \in Captures \ {c} : pc'[d] = pc[d] /\ job'[d] = job[d]
      BY <1>1, FrameStep DEF Act
    <2> QED BY <1>1, <2>1, <2>2 DEF Begin
  <1>2. ASSUME NEW c \in Captures, Unchanged(c) \/ LatestUnreadable(c) \/ BundleExists(c)
               \/ StagingFails(c) \/ Finish(c) \/ Kill(c)
        PROVE  Settled
    <2>1. pc'[c] = "off" /\ UNCHANGED <<store, bundles, latest, history>>
      BY <1>0, <1>2 DEF Unchanged, LatestUnreadable, BundleExists, StagingFails, Finish, Kill,
        Fail, End
    <2>2. \A d \in Captures \ {c} : pc'[d] = pc[d] /\ job'[d] = job[d]
      BY <1>2, FrameStep DEF Act, Persist
    <2> QED BY <2>1, <2>2
  <1>3. ASSUME NEW c \in Captures, Prepare(c) PROVE Settled
    BY <1>0, <1>3 DEF Prepare
  <1>4. ASSUME NEW c \in Captures, StageFile(c) PROVE Settled
    BY <1>0, <1>4 DEF StageFile, Jobs
  <1>5. CASE Damage \/ VerifyCommand \/ UNCHANGED vars
    BY <1>5 DEF Damage, VerifyCommand, vars
  <1> QED
    BY <1>1, <1>2, <1>3, <1>4, <1>5 DEF Next, Persist

LEMMA SettledKeeps ==
  ASSUME Settled, NEW n \in 0 .. MaxAttempts, UpTo(n), PointerInv(n), HistoryInv(n)
  PROVE  UpTo(n)' /\ PointerInv(n)' /\ HistoryInv(n)'
  <1>1. UpTo(n)' /\ Last' = Last /\ Listed(n)' = Listed(n) /\ Listed(n - 1)' = Listed(n - 1)
    BY DEF Settled, UpTo, Published, Last, Pointer, Listed
  <1>2. \A d \in Captures : Recording(d)' => Recording(d) /\ pc'[d] = pc[d] /\ job'[d] = job[d]
    BY DEF Settled, Recording
  <1>3. PointerInv(n)'
    BY <1>1, <1>2 DEF Settled, PointerInv
  <1>4. HistoryInv(n)'
    BY <1>1, <1>2 DEF Settled, HistoryInv, Recording
  <1> QED BY <1>1, <1>3, <1>4

(* What each of the other steps does to n. *)
LEMMA RecordSteps ==
  ASSUME ArchiveInv, NEW n \in 0 .. MaxAttempts, UpTo(n), PointerInv(n), HistoryInv(n),
         NEW c \in Captures,
         \/ ChooseVersion(c) \/ Publish(c) \/ ReadHistory(c) \/ OpenHistory(c)
         \/ FillHistory(c) \/ OpenLatest(c) \/ FillLatest(c)
  PROVE  \E m \in 0 .. MaxAttempts : UpTo(m)' /\ PointerInv(m)' /\ HistoryInv(m)'
  <1> DEFINE Goal == \E m \in 0 .. MaxAttempts : UpTo(m)' /\ PointerInv(m)' /\ HistoryInv(m)'
  <1>0. /\ TypeInv /\ Alone /\ n \in Nat
        /\ pc \in [Captures -> Stages] /\ job \in [Captures -> Jobs]
        /\ store' = store /\ \A d \in Captures \ {c} : pc'[d] = pc[d] /\ job'[d] = job[d]
    <2>1. Act(c)
      BY DEF Act, Persist
    <2>2. TypeInv /\ Alone
      BY DEF ArchiveInv
    <2>3. store' = store /\ \A d \in Captures \ {c} : pc'[d] = pc[d] /\ job'[d] = job[d]
      BY <2>1, <2>2, FrameStep
    <2>4. n \in Nat
      BY ConstantsAssumption DEF ConstantsAssumption
    <2> QED BY <2>2, <2>3, <2>4 DEF TypeInv, TypeOK
  <1>a. \A d \in Captures : pc[d] \in {"checking", "staging"} =>
          job[d].version \in Nat /\ latest # Torn /\ job[d].version <= Last + 1
    BY <1>0 DEF PointerInv, Jobs
  <1>b. Last \in Nat
    BY <1>0, ConstantsAssumption DEF Last, Pointer, TypeInv, TypeOK, Versions, ConstantsAssumption
  <1>c. bundles' = bundles => UpTo(n)'
    BY DEF UpTo, Published
  <1>d. Recording(c) => n > 0 /\ n - 1 \in Nat /\ job[c].version = n
    BY <1>0, ConstantsAssumption
    DEF PointerInv, Recording, TypeInv, Chosen, Versions, ConstantsAssumption
  <1>1. CASE ChooseVersion(c)
    <2>1. /\ latest # Torn /\ pc'[c] = "checking" /\ job'[c].version = Last + 1
          /\ bundles' = bundles /\ latest' = latest /\ history' = history
      BY <1>0, <1>1 DEF ChooseVersion, To, disk, Jobs, NextVersion, Last
    <2>2. Last' = Last /\ Listed(n)' = Listed(n) /\ Listed(n - 1)' = Listed(n - 1)
      BY <2>1 DEF Last, Pointer, Listed
    <2>3. PointerInv(n)'
      BY <1>0, <1>a, <1>b, <2>1, <2>2 DEF PointerInv, Recording
    <2>4. HistoryInv(n)'
      BY <1>0, <2>1, <2>2 DEF HistoryInv
    <2> QED BY <1>c, <2>1, <2>3, <2>4
  <1>2. CASE Publish(c)
    <2>1. /\ n + 1 \in Versions /\ UpTo(n + 1)' /\ job[c].version = n + 1
      BY <1>2, PublishStep
    <2>2. /\ pc[c] = "staging" /\ pc'[c] = "history" /\ job' = job
          /\ latest' = latest /\ history' = history
      BY <1>0, <1>2 DEF Publish, To
    <2>3. latest # Torn /\ Last = n
      BY <1>0, <1>a, <1>b, <2>1, <2>2 DEF PointerInv
    <2>4. \A d \in Captures : ~Recording(d)
      BY <2>3, <1>0 DEF PointerInv, Recording
    <2>5. Last' = Last /\ Listed(n)'
      BY <2>2, <2>3 DEF Last, Pointer, Listed, HistoryInv
    <2>6. \A d \in Captures : Recording(d)' => d = c
      BY <1>0, <2>4 DEF Recording
    <2>7. (n + 1) - 1 = n /\ n + 1 > 0 /\ n # n + 1
      BY <1>0
    <2>8. history' = Torn => ~store'.atomic
      BY <1>0, <2>2 DEF PointerInv
    <2>9. PointerInv(n + 1)'
      BY <1>0, <1>a, <2>1, <2>2, <2>3, <2>5, <2>6, <2>7, <2>8 DEF PointerInv, Recording
    <2>10. HistoryInv(n + 1)'
      BY <2>2, <2>3, <2>5, <2>6, <2>7 DEF HistoryInv, Recording
    <2>11. n + 1 \in 0 .. MaxAttempts
      BY <2>1, ConstantsAssumption DEF Versions, ConstantsAssumption
    <2> QED BY <2>1, <2>9, <2>10, <2>11
  <1>3. CASE ReadHistory(c)
    <2>1. /\ pc[c] = "history" /\ pc'[c] = "history-open"
          /\ job'[c].history = Append(IF history = Missing THEN <<>> ELSE history, job[c].version)
          /\ job'[c].version = job[c].version
          /\ bundles' = bundles /\ latest' = latest /\ history' = history
      BY <1>0, <1>3 DEF ReadHistory, To, disk, Jobs
    <2>2. Listed(n - 1) /\ n - 1 \in Nat /\ job[c].version = n /\ Recording(c)
      BY <1>d, <2>1 DEF HistoryInv, Recording
    <2>3. job'[c].history = Upto(n)
      <3>1. CASE n = 1
        <4>1. history = Missing
          BY <2>2, <3>1 DEF Listed
        <4> QED BY <2>1, <2>2, <3>1, <4>1, UptoFacts
      <3>2. CASE n # 1
        <4>1. history = Upto(n - 1) /\ history # Missing
          BY <2>2, <3>2, UptoFacts DEF Listed
        <4>2. PICK k \in Nat : k = n - 1
          BY <2>2
        <4>3. Append(Upto(k), k + 1) = Upto(k + 1)
          BY UptoFacts
        <4>4. k + 1 = n
          BY <1>0, <4>2
        <4> QED BY <2>1, <2>2, <4>1, <4>2, <4>3, <4>4
      <3> QED BY <3>1, <3>2
    <2>4. Last' = Last /\ Listed(n)' = Listed(n) /\ Listed(n - 1)' = Listed(n - 1)
      BY <2>1 DEF Last, Pointer, Listed
    <2>5. \A d \in Captures : Recording(d)' <=> Recording(d)
      BY <1>0, <2>1 DEF Recording
    <2>6. PointerInv(n)'
      BY <1>0, <1>a, <2>1, <2>2, <2>4, <2>5 DEF PointerInv
    <2>7. HistoryInv(n)'
      BY <1>0, <2>1, <2>2, <2>3, <2>4 DEF HistoryInv
    <2> QED BY <1>c, <2>1, <2>6, <2>7
  <1>4. CASE OpenHistory(c)
    <2>1. /\ pc[c] = "history-open" /\ pc'[c] = "history-fill" /\ ~store.atomic
          /\ bundles' = bundles /\ latest' = latest /\ history' = Torn /\ job' = job
      BY <1>0, <1>4 DEF OpenHistory, To
    <2>2. \A d \in Captures \ {c} : pc'[d] = "off"
      BY <1>0, <2>1 DEF Alone
    <2>3. /\ n > 0 /\ latest # Torn /\ Last = n - 1 /\ Last' = Last /\ job[c].version = n
          /\ job[c].history = Upto(n)
      BY <1>d, <2>1 DEF PointerInv, HistoryInv, Recording, Last, Pointer
    <2>4. PointerInv(n)'
      BY <1>0, <2>1, <2>2, <2>3 DEF PointerInv, Recording
    <2>5. Last' # n
      BY <1>0, <2>3
    <2>6. HistoryInv(n)'
      BY <2>1, <2>2, <2>3, <2>5 DEF HistoryInv
    <2> QED BY <1>c, <2>1, <2>4, <2>6
  <1>5. CASE FillHistory(c)
    <2>1. /\ pc[c] \in {"history-open", "history-fill"} /\ pc'[c] = "latest-open"
          /\ bundles' = bundles /\ latest' = latest /\ history' = job[c].history /\ job' = job
      BY <1>0, <1>5 DEF FillHistory, To
    <2>2. /\ n > 0 /\ latest # Torn /\ Last = n - 1 /\ Last' = Last /\ job[c].version = n
          /\ history' = Upto(n) /\ Recording(c)
      BY <1>d, <2>1 DEF PointerInv, HistoryInv, Recording, Last, Pointer
    <2>3. Listed(n)' /\ history' # Torn
      BY <1>0, <2>2, UptoFacts DEF Listed
    <2>4. \A d \in Captures : Recording(d)' => d = c
      BY <1>0, <2>2 DEF Recording, PointerInv
    <2>5. PointerInv(n)'
      BY <1>0, <1>a, <2>1, <2>2, <2>3, <2>4 DEF PointerInv, Recording
    <2>6. HistoryInv(n)'
      BY <2>1, <2>3, <2>4 DEF HistoryInv, Recording
    <2> QED BY <1>c, <2>1, <2>5, <2>6
  <1>6. CASE OpenLatest(c)
    <2>1. /\ pc[c] = "latest-open" /\ pc'[c] = "latest-fill" /\ ~store.atomic
          /\ bundles' = bundles /\ latest' = Torn /\ history' = history /\ job' = job
      BY <1>0, <1>6 DEF OpenLatest, To
    <2>2. \A d \in Captures \ {c} : pc'[d] = "off"
      BY <1>0, <2>1 DEF Alone
    <2>3. n > 0 /\ job[c].version = n /\ Listed(n)'
      BY <1>d, <2>1 DEF HistoryInv, Recording, Listed
    <2>4. PointerInv(n)'
      BY <1>0, <2>1, <2>2, <2>3 DEF PointerInv, Recording
    <2>5. HistoryInv(n)'
      BY <2>1, <2>2, <2>3 DEF HistoryInv
    <2> QED BY <1>c, <2>1, <2>4, <2>5
  <1>7. CASE FillLatest(c)
    <2>1. /\ pc[c] \in {"latest-open", "latest-fill"} /\ pc'[c] = "verify"
          /\ bundles' = bundles /\ history' = history /\ job' = job
          /\ latest' = [version |-> job[c].version, content |-> job[c].content]
      BY <1>0, <1>7 DEF FillLatest, To
    <2>2. n > 0 /\ job[c].version = n /\ Recording(c) /\ Listed(n)'
      BY <1>d, <2>1 DEF HistoryInv, Recording, Listed
    <2>3. latest' \notin {Missing, Torn}
      <3>1. job[c].content \in Contents
        BY <1>0, <2>1 DEF TypeInv
      <3>2. [version |-> n, content |-> job[c].content] \in [version: Nat, content: Contents]
        BY <1>0, <3>1
      <3> QED BY <2>1, <2>2, <3>2, UnreadableAssumption DEF UnreadableAssumption
    <2>4. Last' = n
      BY <2>1, <2>2, <2>3 DEF Last, Pointer
    <2>5. \A d \in Captures : ~Recording(d)'
      BY <1>0, <2>1, <2>2 DEF Recording, PointerInv
    <2>6. \A d \in Captures : pc'[d] \in {"checking", "staging"} => job'[d].version <= n + 1
      <3> SUFFICES ASSUME NEW d \in Captures, pc'[d] \in {"checking", "staging"}
                   PROVE  job'[d].version <= n + 1
        OBVIOUS
      <3>1. d # c /\ pc[d] \in {"checking", "staging"}
        BY <1>0, <2>1
      <3>2. latest # Torn /\ job[d].version \in Nat /\ job[d].version <= Last + 1 /\ Last \in {n - 1, n}
        BY <1>a, <3>1 DEF PointerInv
      <3> QED BY <1>0, <2>1, <3>2
    <2>7. history' = Torn => ~store'.atomic
      BY <1>0, <2>1 DEF PointerInv
    <2>8. PointerInv(n)'
      BY <1>0, <2>2, <2>3, <2>4, <2>5, <2>6, <2>7 DEF PointerInv
    <2>9. HistoryInv(n)'
      BY <2>2, <2>5 DEF HistoryInv, Recording
    <2> QED BY <1>c, <2>1, <2>8, <2>9
  <1> QED BY <1>1, <1>2, <1>3, <1>4, <1>5, <1>6, <1>7

LEMMA RecordInit == Init => RecordInv
  <1> SUFFICES ASSUME Init PROVE RecordInv
    OBVIOUS
  <1>1. 0 \in 0 .. MaxAttempts /\ UpTo(0)
    BY ConstantsAssumption DEF Init, Published, UpTo, Versions, ConstantsAssumption
  <1>2. PointerInv(0) /\ HistoryInv(0)
    BY ConstantsAssumption DEF Init, PointerInv, HistoryInv, Last, Pointer, Recording, Listed,
      ConstantsAssumption
  <1> QED BY <1>1, <1>2, ArchiveInit DEF RecordInv

LEMMA RecordStep ==
  ASSUME Overlapping \subseteq {"filesystem"}
  PROVE  RecordInv /\ [Next]_vars => RecordInv'
  <1> SUFFICES ASSUME RecordInv, [Next]_vars PROVE RecordInv'
    OBVIOUS
  <1>1. ArchiveInv /\ ArchiveInv' /\ TypeInv
    BY ArchiveStep DEF RecordInv, ArchiveInv
  <1>2. PICK n \in 0 .. MaxAttempts : UpTo(n) /\ PointerInv(n) /\ HistoryInv(n)
    BY DEF RecordInv
  <1>3. CASE Settled
    BY <1>1, <1>2, <1>3, SettledKeeps DEF RecordInv
  <1>4. ASSUME NEW c \in Captures,
               \/ ChooseVersion(c) \/ Publish(c) \/ ReadHistory(c) \/ OpenHistory(c)
               \/ FillHistory(c) \/ OpenLatest(c) \/ FillLatest(c)
        PROVE  RecordInv'
    BY <1>1, <1>2, <1>4, RecordSteps DEF RecordInv
  <1> QED BY <1>1, <1>3, <1>4, SettledSteps

(* The history lists every version once, in order, up to the latest, and   *)
(* no capture reads one that is being written (version-history.json of     *)
(* persist), however captures are killed.                                  *)
THEOREM HistoryAlwaysComplete ==
  ASSUME Overlapping \subseteq {"filesystem"}
  PROVE  Spec => []HistoryComplete
  <1>1. RecordInv => HistoryComplete
    <2> SUFFICES ASSUME RecordInv PROVE HistoryComplete
      OBVIOUS
    <2>1. PICK n \in 0 .. MaxAttempts : UpTo(n) /\ PointerInv(n) /\ HistoryInv(n)
      BY DEF RecordInv
    <2>2. n \in Nat /\ (n > 0 => n - 1 \in Nat)
      BY <2>1, ConstantsAssumption DEF ConstantsAssumption
    <2>3. \A c \in Captures : pc[c] = "history" => history # Torn
      <3> SUFFICES ASSUME NEW c \in Captures, pc[c] = "history" PROVE history # Torn
        OBVIOUS
      <3>1. n > 0
        BY <2>1, <2>2, ConstantsAssumption
        DEF RecordInv, ArchiveInv, TypeInv, Chosen, PointerInv, Recording, Versions, ConstantsAssumption
      <3>2. Listed(n - 1)
        BY <2>1 DEF HistoryInv
      <3> QED BY <2>2, <3>1, <3>2, UptoFacts, ConstantsAssumption DEF Listed, ConstantsAssumption
    <2>4. ASSUME history \notin {Missing, Torn}
          PROVE  /\ history = [v \in 1 .. Len(history) |-> v]
                 /\ Pointer => latest.version \in {Len(history), Len(history) - 1}
      <3>1. Pointer => latest.version \in {n - 1, n} /\ (latest.version = n => Listed(n))
        BY <2>1 DEF PointerInv, HistoryInv, Last, Pointer
      <3>2. CASE Listed(n)
        <4>1. history = Upto(n)
          BY <2>4, <3>2 DEF Listed
        <4>2. Len(history) = n
          BY <2>2, <4>1, UptoFacts
        <4> QED BY <3>1, <4>1, <4>2 DEF Upto
      <3>3. CASE Listed(n - 1) /\ ~Listed(n)
        <4>1. history = Upto(n - 1) /\ n - 1 \in Nat
          <5>1. n # 0
            <6> SUFFICES ASSUME n = 0 PROVE FALSE
              OBVIOUS
            <6>1. Last \in Nat
              BY ConstantsAssumption DEF Last, Pointer, RecordInv, ArchiveInv, TypeInv, TypeOK,
                Versions, ConstantsAssumption
            <6>2. latest # Torn /\ Last \in {n - 1, n}
              BY <2>1, <2>2 DEF PointerInv
            <6>3. Last = n
              BY <6>1, <6>2
            <6> QED BY <2>1, <3>3, <6>3 DEF HistoryInv
          <5> QED BY <2>2, <2>4, <3>3, <5>1 DEF Listed
        <4>2. Len(history) = n - 1
          BY <4>1, UptoFacts
        <4> QED BY <3>1, <3>3, <4>1, <4>2 DEF Upto
      <3> QED BY <2>1, <2>4, <3>2, <3>3 DEF HistoryInv
    <2> QED BY <2>3, <2>4 DEF HistoryComplete
  <1> QED BY RecordInit, RecordStep, <1>1, PTL DEF Spec
-----------------------------------------------------------------------------
(* What a verifier asks for is part of a bundle of its strategy, and what  *)
(* it passes as evidence is compared with a checksum.                      *)
LEMMA VerifierFacts ==
  ASSUME NEW s \in Strategies
  PROVE  /\ VerifierOf(s).required \cup VerifierOf(s).compared \subseteq FilesOf(s)
         /\ {"raw", "normalized", "clips", "assets"} \cap FilesOf(s)
              \subseteq VerifierOf(s).compared
  <1>1. CASE s = FilesystemStore
    BY <1>1 DEF FilesystemStore, VerifierOf, FilesystemVerifier, FilesOf
  <1>2. CASE s = SunoStore
    BY <1>2 DEF SunoStore, VerifierOf, SunoVerifier, Summed, FilesOf
  <1>3. CASE s = DistroKidStore
    BY <1>3 DEF DistroKidStore, VerifierOf, DistroKidVerifier, Summed, FilesOf
  <1>4. CASE s = SoundCloudStore
    BY <1>4 DEF SoundCloudStore, VerifierOf, SoundCloudVerifier, Summed, FilesOf
  <1>5. CASE s = ChromeBookmarksStore
    BY <1>5 DEF ChromeBookmarksStore, VerifierOf, ChromeBookmarksVerifier, Summed, FilesOf
  <1> QED BY <1>1, <1>2, <1>3, <1>4, <1>5 DEF Strategies

(* A whole bundle passes, as long as nothing was damaged. *)
LEMMA WholeVerifies ==
  ASSUME TypeInv, Clashing = {}, damage = {},
         NEW v \in Versions, NEW x \in Contents, Whole(v, x)
  PROVE  Verifies(v) /\ bundles[v]["manifest"] = x
  <1>1. store \in Strategies
    BY DEF TypeInv, TypeOK
  <1>2. \A f \in VerifierOf(store).required \cup VerifierOf(store).compared : bundles[v][f] = x
    BY <1>1, VerifierFacts DEF Whole
  <1>3. x # Missing
    BY ConstantsAssumption DEF ConstantsAssumption
  <1>4. bundles[v]["manifest"] = x
    BY <1>1, StrategyFacts DEF Whole
  <1> QED BY <1>2, <1>3, <1>4 DEF Verifies, Clashes

(* A result that says it passed is one of a version that is whole: the     *)
(* capture's own, or the one latest.json names.                            *)
ResultInv ==
  /\ ArchiveInv
  /\ \A c \in Captures : result[c].verification_passed =>
       /\ result[c].version \in Versions /\ result[c].content \in Contents
       /\ Kept(result[c].version, result[c].content)

LEMMA ResultInit == Init => ResultInv
  <1> SUFFICES ASSUME Init PROVE ResultInv
    OBVIOUS
  <1>1. \A c \in Captures : ~result[c].verification_passed
    <2>1. NoResult.verification_passed <=> "none" \in {"complete", "unchanged"}
      BY Zenon DEF NoResult, Result
    <2> QED BY <2>1 DEF Init
  <1> QED BY <1>1, ArchiveInit DEF ResultInv

LEMMA ResultStep ==
  ASSUME Overlapping \subseteq {"filesystem"}
  PROVE  ResultInv /\ [Next]_vars => ResultInv'
  <1> SUFFICES ASSUME ResultInv, [Next]_vars PROVE ResultInv'
    OBVIOUS
  <1> DEFINE Keeps(v, x) == bundles'[v] # Empty /\ \A f \in FilesOf(store') : bundles'[v][f] = x
             Passed(r) == r.verification_passed =>
               r.version \in Versions /\ r.content \in Contents /\ Keeps(r.version, r.content)
  <1>1. ArchiveInv' /\ TypeInv
    BY ArchiveStep DEF ResultInv, ArchiveInv
  <1>2. ASSUME NEW c \in Captures, Act(c)
        PROVE  \A d \in Captures : Passed(result[d])
    <2>1. \A v \in Versions, x \in Contents : Kept(v, x) => Keeps(v, x)
      BY <1>1, <1>2, KeptStep, FrameStep DEF Kept, Published, Whole
    <2> QED BY <2>1 DEF ResultInv
  <1>3. ASSUME NEW c \in Captures, Act(c)
        PROVE  \A d \in Captures : Passed(result'[d])
    <2>1. CASE result' = result
      BY <1>2, <1>3, <2>1
    <2>2. ASSUME NEW status \in {"failed", "complete", "unchanged"}, NEW version, NEW content,
                 End(c, status, version, content),
                 status # "failed" =>
                   version \in Versions /\ content \in Contents /\ Keeps(version, content)
          PROVE  \A d \in Captures : Passed(result'[d])
      <3>1. result' = [result EXCEPT ![c] = Result(status, version, content)]
        BY <2>2 DEF End
      <3>2. Passed(Result(status, version, content))
        BY <2>2 DEF Result
      <3>3. \A d \in Captures :
              result'[d] = IF d = c THEN Result(status, version, content) ELSE result[d]
        BY <1>1, <3>1 DEF TypeInv, TypeOK
      <3> HIDE DEF Passed
      <3> QED BY <1>2, <1>3, <3>2, <3>3
    <2>3. ASSUME Fail(c) PROVE \A d \in Captures : Passed(result'[d])
      <3> HIDE DEF Passed
      <3> QED BY <2>2, <2>3 DEF Fail
    <2>4. ASSUME Unchanged(c) PROVE \A d \in Captures : Passed(result'[d])
      <3>1. /\ latest.version \in Versions /\ latest.content = job[c].content
            /\ latest.content \in Contents /\ Kept(latest.version, latest.content)
        BY <2>4, <1>1 DEF Unchanged, Same, Pointer, TypeInv, TypeOK, ResultInv, ArchiveInv
      <3>2. Keeps(latest.version, job[c].content)
        BY <2>4, <3>1 DEF Unchanged, disk, Kept, Whole, Published
      <3> HIDE DEF Passed, Keeps
      <3> QED BY <2>2, <2>4, <3>1, <3>2 DEF Unchanged
    <2>5. ASSUME Finish(c) PROVE \A d \in Captures : Passed(result'[d])
      <3>1. /\ pc[c] = "verify" /\ CaptureInv(c) /\ Chosen(c)
            /\ bundles' = bundles /\ store' = store
        BY <2>5 DEF Finish, ResultInv, ArchiveInv, Chosen, disk
      <3>2. /\ job[c].version \in Versions /\ job[c].content \in Contents
            /\ Kept(job[c].version, job[c].content)
        BY <1>1, <3>1 DEF CaptureInv, TypeInv
      <3>3. ASSUME End(c, "complete", job[c].version, job[c].content)
            PROVE  \A d \in Captures : Passed(result'[d])
        <4>1. Keeps(job[c].version, job[c].content)
          BY <3>1, <3>2 DEF Kept, Whole, Published
        <4> HIDE DEF Passed, Keeps
        <4> QED BY <2>2, <3>2, <3>3, <4>1
      <3> QED BY <2>3, <2>5, <3>3 DEF Finish
    <2>6. \/ result' = result \/ Fail(c) \/ Unchanged(c) \/ Finish(c)
      BY <1>3 DEF Act, Persist, Begin, Kill, LatestUnreadable, ChooseVersion, BundleExists,
        Prepare, StageFile, Publish, StagingFails, ReadHistory, OpenHistory, FillHistory,
        OpenLatest, FillLatest
    <2> HIDE DEF Passed
    <2> QED BY <2>1, <2>3, <2>4, <2>5, <2>6
  <1>4. CASE Damage \/ VerifyCommand \/ UNCHANGED vars
    <2>1. bundles' = bundles /\ store' = store /\ result' = result
      BY <1>4 DEF Damage, VerifyCommand, vars, disk
    <2> QED BY <1>1, <2>1 DEF ResultInv, Kept, Whole, Published
  <1>5. ASSUME NEW c \in Captures, Act(c) PROVE ResultInv'
    BY <1>1, <1>3, <1>5 DEF ResultInv, Kept, Whole, Published
  <1> QED BY <1>4, <1>5 DEF Next, Act

(* A capture that says it passed verification points to a bundle that      *)
(* passes it and holds what it read from the provider, while the disk      *)
(* keeps what was written; two assets of one path are the exception, which *)
(* MCArchiveStore_clash shows.                                             *)
THEOREM ResultsVerify ==
  ASSUME Overlapping \subseteq {"filesystem"}, Clashing = {}
  PROVE  Spec => []PassedVerification
  <1>1. ResultInv => PassedVerification
    BY WholeVerifies DEF ResultInv, ArchiveInv, PassedVerification, Kept
  <1> QED BY ResultInit, ResultStep, <1>1, PTL DEF Spec

(* What a verify command passes is the evidence that was captured, and is  *)
(* undamaged (verify of the five stores).                                  *)
THEOREM VerifyMeansEvidence ==
  ASSUME Overlapping \subseteq {"filesystem"}
  PROVE  Spec => EvidenceVerified
  <1>1. ASSUME ArchiveInv, [Next]_vars, report' # report, report'.status = "pass"
        PROVE  \A f \in Evidence :
                 /\ bundles[report'.version][f] = bundles[report'.version]["manifest"]
                 /\ \A kind \in {Lost, Altered} : <<report'.version, f, kind>> \notin damage
    <2>1. VerifyCommand
      BY <1>1 DEF Next, Persist, Begin, Kill, LatestUnreadable, ChooseVersion, BundleExists,
        Prepare, StageFile, Publish, StagingFails, ReadHistory, OpenHistory, FillHistory,
        OpenLatest, FillLatest, Unchanged, Finish, Damage, vars
    <2>2. PICK v \in Versions : report'.version = v /\ Published(v) /\ Verifies(v)
      BY <1>1, <2>1 DEF VerifyCommand
    <2>3. PICK x \in Contents : Whole(v, x)
      BY <1>1, <2>2 DEF ArchiveInv
    <2>4. /\ Evidence \subseteq VerifierOf(store).compared /\ Evidence \subseteq FilesOf(store)
          /\ "manifest" \in FilesOf(store)
      BY <1>1, VerifierFacts, StrategyFacts DEF Evidence, ArchiveInv, TypeInv, TypeOK
    <2> QED BY <2>2, <2>3, <2>4 DEF Verifies, Whole
  <1>2. ArchiveInv /\ [Next]_vars =>
          [report' # report /\ report'.status = "pass" =>
             \A f \in Evidence :
               /\ bundles[report'.version][f] = bundles[report'.version]["manifest"]
               /\ \A kind \in {Lost, Altered} : <<report'.version, f, kind>> \notin damage]_vars
    BY <1>1
  <1> QED BY ArchiveInit, ArchiveStep, <1>2, PTL DEF Spec, EvidenceVerified
-----------------------------------------------------------------------------
(* The refinement of ArchiveLedger. *)
Abstract == [v \in {w \in Versions : Published(w)} |-> bundles[v]["manifest"]]

LEMMA AbstractIsSequence ==
  ASSUME ArchiveInv, NEW n \in 0 .. MaxAttempts, UpTo(n)
  PROVE  Abstract = [v \in 1 .. n |-> bundles[v]["manifest"]]
  <1>1. {w \in Versions : Published(w)} = 1 .. n
    BY ConstantsAssumption DEF UpTo, Versions, ConstantsAssumption
  <1> QED BY <1>1 DEF Abstract

LEMMA LedgerStep ==
  ASSUME ArchiveInv, ArchiveInv', [Next]_vars
  PROVE  Abstract' = Abstract \/ \E x \in Contents : Abstract' = Append(Abstract, x)
  <1>1. PICK n \in 0 .. MaxAttempts : UpTo(n)
    BY DEF ArchiveInv
  <1>2. CASE bundles' = bundles
    BY <1>2 DEF Abstract, Published
  <1>3. ASSUME NEW c \in Captures, Publish(c)
        PROVE  Abstract' = Append(Abstract, job[c].content) /\ job[c].content \in Contents
    <2>1. /\ n + 1 \in Versions /\ UpTo(n + 1)' /\ Whole(n + 1, job[c].content)'
          /\ job[c].content \in Contents
          /\ \A v \in Versions \ {n + 1} : bundles'[v] = bundles[v]
      BY <1>1, <1>3, PublishStep
    <2>2. {w \in Versions : Published(w)}' = 1 .. n + 1
      BY <2>1, ConstantsAssumption DEF UpTo, Versions, ConstantsAssumption
    <2>3. Abstract' = [v \in 1 .. n + 1 |-> bundles'[v]["manifest"]]
      BY <2>2 DEF Abstract
    <2>4. Abstract = [v \in 1 .. n |-> bundles[v]["manifest"]]
      BY <1>1, AbstractIsSequence
    <2>5. bundles'[n + 1]["manifest"] = job[c].content
      BY <1>3, <2>1, StrategyFacts DEF Publish, Whole, ArchiveInv, TypeInv, TypeOK
    <2>6. Append(Abstract, job[c].content)
            = [v \in 1 .. n + 1 |-> IF v = n + 1 THEN job[c].content ELSE bundles[v]["manifest"]]
      BY <2>4
    <2>7. \A v \in 1 .. n : v \in Versions \ {n + 1}
      BY <2>1, ConstantsAssumption DEF Versions, ConstantsAssumption
    <2> QED BY <2>1, <2>3, <2>5, <2>6, <2>7
  <1>4. bundles' = bundles \/ \E c \in Captures : Publish(c)
    <2>1. CASE \E c \in Captures : Act(c)
      BY <2>1, BundlesStep DEF ArchiveInv
    <2>2. CASE Damage \/ VerifyCommand \/ UNCHANGED vars
      BY <2>2 DEF Damage, VerifyCommand, vars, disk
    <2> QED BY <2>1, <2>2 DEF Next, Act
  <1> QED BY <1>2, <1>3, <1>4

(* Versions are numbered without a gap and never rewritten or removed: the *)
(* store implements the ledger.                                            *)
THEOREM StoreImplementsLedger ==
  ASSUME Overlapping \subseteq {"filesystem"}
  PROVE  Spec => LedgerSpec
  <1>1. Init => Ledger!Init
    <2> SUFFICES ASSUME Init PROVE Ledger!Init
      OBVIOUS
    <2>1. {w \in Versions : Published(w)} = {}
      BY DEF Init, Published
    <2> QED BY <2>1 DEF Ledger!Init
  <1>2. ArchiveInv /\ ArchiveInv' /\ [Next]_vars => [Ledger!Next]_Abstract
    BY LedgerStep DEF Ledger!Next, Abstract
  <1> QED BY ArchiveInit, ArchiveStep, <1>1, <1>2, PTL DEF Spec, LedgerSpec, Ledger!Spec, Abstract
=============================================================================
