--------------------------- MODULE CaptureProofs ---------------------------
(***************************************************************************)
(* Proofs about the parts of MCCaptures, the programs that read a          *)
(* provider: the browser sessions, the SoundCloud capture, the snapshot of *)
(* Chrome's bookmarks, the Suno capture and the discovery of a collection. *)
(* An invariant of a part is kept by its steps, and by those of the others *)
(* because they leave its variables alone.                                 *)
(***************************************************************************)
EXTENDS MCCaptures, FiniteSetTheorems, SequenceTheorems, WellFoundedInduction, TLAPS
-----------------------------------------------------------------------------
(* Chromes are numbered by their launch; only one that was launched can    *)
(* run, and a command knows none that was launched after it looked.        *)
Launched == 1 .. launched

BrowserTypes ==
  /\ launched \in Nat
  /\ starting \subseteq Launched /\ owner \in Launched \cup {None}
  /\ stage \in [Browsers -> Browser!Ended \cup {"login", "signing in", "check", "read", "launch",
                                                "wait", "connected", "shutdown", "cleanup",
                                                  "unlink"}]
  /\ chrome \in [Browsers -> Launched \cup {None}]
  /\ known \in [Browsers -> SUBSET Launched]
  /\ previous \in [Browsers -> Nat \cup {None}] /\ connected \in [Browsers -> Nat \cup {None}]
  /\ portFile \in Nat \cup {None}

(* The profile was free when a command looked: what runs is younger.       *)
RunningYounger ==
  \A s \in Browsers : stage[s] \in {"read", "launch", "wait"} =>
    owner \notin known[s] /\ starting \cap known[s] = {}

(* An older Chrome's port is in the file only where the command saw it     *)
(* there before it launched its own.                                       *)
OldPortSeen ==
  \A s \in Browsers : stage[s] \in {"launch", "wait"} /\ portFile \in known[s] =>
    portFile = previous[s]

NothingConnected ==
  \A s \in Browsers : stage[s] \in {"login", "signing in", "check"} => connected[s] = None

(* From the shutdown on, a command's Chrome is gone for good.              *)
OwnGone ==
  \A s \in Browsers : stage[s] \in {"cleanup", "unlink", "done"} =>
    chrome[s] \notin Browser!Alive

BrowserInv ==
  BrowserTypes /\ RunningYounger /\ OldPortSeen /\ NothingConnected /\ OwnGone
    /\ Browser!EndpointFresh

LEMMA BrowserInit == Init => BrowserInv
  <1> SUFFICES ASSUME Browser!Init PROVE BrowserInv
    BY DEF Init
  <1> USE NoneAssumption DEF Browser!Init
  <1>1. Launched = {1}
    BY DEF Launched
  <1>2. BrowserTypes
    <2>1. \A n \in {None, 1} : n \in Launched \cup {None} /\ n \in Nat \cup {None}
      BY <1>1
    <2>2. starting \subseteq Launched /\ known \in [Browsers -> SUBSET Launched]
      BY <1>1
    <2>3. stage \in [Browsers -> Browser!Ended \cup {"login", "signing in", "check", "read",
            "launch",
                                              "wait", "connected", "shutdown", "cleanup", "unlink"}]
      BY DEF Browser!Ended
    <2> QED BY <2>1, <2>2, <2>3 DEF BrowserTypes
  <1>3. RunningYounger /\ OldPortSeen /\ NothingConnected /\ OwnGone
    BY DEF RunningYounger, OldPortSeen, NothingConnected, OwnGone, Browser!Alive
  <1>4. Browser!EndpointFresh
    BY DEF Browser!EndpointFresh
  <1> QED BY <1>2, <1>3, <1>4 DEF BrowserInv

(* A launch takes the next number. *)
LEMMA NextChrome ==
  ASSUME launched \in Nat, launched' = launched + 1
  PROVE  launched' \in Nat /\ Launched' = Launched \cup {launched'} /\ launched' \notin Launched
  BY DEF Launched

LEMMA ChromesNumbered == launched \in Nat => Launched \subseteq Nat
  BY DEF Launched

LEMMA BrowserTypesStep == BrowserTypes /\ [Browser!Next]_browserVars => BrowserTypes'
  <1> SUFFICES ASSUME BrowserTypes, [Browser!Next]_browserVars PROVE BrowserTypes'
    OBVIOUS
  <1> USE DEF BrowserTypes, Browser!Ended, Browser!At, Browser!Go, Browser!Chromes,
              Browser!Remembered
  <1>1. Launched \subseteq Nat
    BY ChromesNumbered
  <1>2. CASE UNCHANGED browserVars
    BY <1>2 DEF browserVars, Launched
  <1>3. CASE Browser!Publish
    <2>1. UNCHANGED launched /\ UNCHANGED Launched
      BY <1>3 DEF Browser!Publish, Launched
    <2> QED BY <1>3, <2>1, <1>1 DEF Browser!Publish
  <1>4. CASE Browser!ChromeExits
    <2>1. UNCHANGED launched /\ UNCHANGED Launched
      BY <1>4 DEF Browser!ChromeExits, Launched
    <2> QED BY <1>4, <2>1, <1>1 DEF Browser!ChromeExits
  <1>5. ASSUME NEW c \in starting, Browser!TakeProfile(c) PROVE BrowserTypes'
    <2>1. UNCHANGED launched /\ UNCHANGED Launched
      BY <1>5 DEF Browser!TakeProfile, Launched
    <2> QED BY <1>5, <2>1, <1>1 DEF Browser!TakeProfile
  <1>6. ASSUME NEW s \in Browsers, Browser!OpenForUser(s) PROVE BrowserTypes'
    <2>1. launched' = launched + 1
      BY <1>6 DEF Browser!OpenForUser
    <2>2. launched' \in Nat /\ Launched' = Launched \cup {launched'} /\ launched' \notin Launched
      BY <2>1, NextChrome
    <2> HIDE DEF Browser!Ended
    <2>3. stage' \in [Browsers -> Browser!Ended \cup {"login", "signing in", "check", "read",
            "launch",
                                               "wait", "connected", "shutdown", "cleanup",
                                                 "unlink"}]
      BY <1>6 DEF Browser!OpenForUser
    <2> QED BY <1>6, <2>2, <2>3 DEF Browser!OpenForUser
  <1>7. ASSUME NEW s \in Browsers, Browser!SignedIn(s) PROVE BrowserTypes'
    <2>1. UNCHANGED launched /\ UNCHANGED Launched
      BY <1>7 DEF Browser!SignedIn, Launched
    <2> QED BY <1>7, <2>1, <1>1 DEF Browser!SignedIn
  <1>8. ASSUME NEW s \in Browsers, Browser!Check(s) PROVE BrowserTypes'
    <2>1. UNCHANGED launched /\ UNCHANGED Launched
      BY <1>8 DEF Browser!Check, Launched
    <2> QED BY <1>8, <2>1, <1>1 DEF Browser!Check, Launched
  <1>9. ASSUME NEW s \in Browsers, Browser!ReadPrevious(s) PROVE BrowserTypes'
    <2>1. UNCHANGED launched /\ UNCHANGED Launched
      BY <1>9 DEF Browser!ReadPrevious, Launched
    <2> QED BY <1>9, <2>1, <1>1 DEF Browser!ReadPrevious
  <1>10. ASSUME NEW s \in Browsers, Browser!Launch(s) PROVE BrowserTypes'
    <2>1. launched' = launched + 1
      BY <1>10 DEF Browser!Launch
    <2>2. launched' \in Nat /\ Launched' = Launched \cup {launched'} /\ launched' \notin Launched
      BY <2>1, NextChrome
    <2> HIDE DEF Browser!Ended
    <2>3. stage' \in [Browsers -> Browser!Ended \cup {"login", "signing in", "check", "read",
            "launch",
                                               "wait", "connected", "shutdown", "cleanup",
                                                 "unlink"}]
      BY <1>10 DEF Browser!Launch
    <2> QED BY <1>10, <2>2, <2>3 DEF Browser!Launch
  <1>11. ASSUME NEW s \in Browsers, Browser!Connect(s) PROVE BrowserTypes'
    <2>1. UNCHANGED launched /\ UNCHANGED Launched
      BY <1>11 DEF Browser!Connect, Launched
    <2> QED BY <1>11, <2>1, <1>1 DEF Browser!Connect
  <1>12. ASSUME NEW s \in Browsers, Browser!WaitFails(s) PROVE BrowserTypes'
    <2>1. UNCHANGED launched /\ UNCHANGED Launched
      BY <1>12 DEF Browser!WaitFails, Launched
    <2> QED BY <1>12, <2>1, <1>1 DEF Browser!WaitFails
  <1>13. ASSUME NEW s \in Browsers, Browser!PageEnds(s) PROVE BrowserTypes'
    <2>1. UNCHANGED launched /\ UNCHANGED Launched
      BY <1>13 DEF Browser!PageEnds, Launched
    <2> QED BY <1>13, <2>1, <1>1 DEF Browser!PageEnds
  <1>14. ASSUME NEW s \in Browsers, Browser!Shutdown(s) PROVE BrowserTypes'
    <2>1. UNCHANGED launched /\ UNCHANGED Launched
      BY <1>14 DEF Browser!Shutdown, Browser!Dies, Launched
    <2> QED BY <1>14, <2>1, <1>1 DEF Browser!Shutdown, Browser!Dies
  <1>15. ASSUME NEW s \in Browsers, Browser!CleanupCheck(s) PROVE BrowserTypes'
    <2>1. UNCHANGED launched /\ UNCHANGED Launched
      BY <1>15 DEF Browser!CleanupCheck, Launched
    <2> QED BY <1>15, <2>1, <1>1 DEF Browser!CleanupCheck
  <1>16. ASSUME NEW s \in Browsers, Browser!Unlink(s) PROVE BrowserTypes'
    <2>1. UNCHANGED launched /\ UNCHANGED Launched
      BY <1>16 DEF Browser!Unlink, Launched
    <2> QED BY <1>16, <2>1, <1>1 DEF Browser!Unlink
  <1>17. ASSUME NEW s \in Browsers, Browser!Kill(s) PROVE BrowserTypes'
    <2>1. UNCHANGED launched /\ UNCHANGED Launched
      BY <1>17 DEF Browser!Kill, Launched
    <2> QED BY <1>17, <2>1, <1>1 DEF Browser!Kill
  <1> QED BY <1>2, <1>3, <1>4, <1>5, <1>6, <1>7, <1>8, <1>9, <1>10, <1>11, <1>12, <1>13, <1>14,
     <1>15, <1>16, <1>17
       DEF Browser!Next, Browser!SessionStep, Browser!ChromeStep, browserVars

LEMMA BrowserStep == BrowserInv /\ [Browser!Next]_browserVars => BrowserInv'
  <1> SUFFICES ASSUME BrowserInv, [Browser!Next]_browserVars PROVE BrowserInv'
    OBVIOUS
  <1>1. BrowserTypes'
    BY BrowserTypesStep DEF BrowserInv
  <1>0. None \notin Launched
    BY ChromesNumbered, NoneAssumption DEF BrowserInv, BrowserTypes
  <1> USE <1>0, <1>1 DEF BrowserInv, BrowserTypes, Browser!At, Browser!Go, Browser!Chromes,
        Browser!Remembered
  <1>2. CASE UNCHANGED browserVars
    BY <1>2 DEF browserVars, RunningYounger, OldPortSeen, NothingConnected, OwnGone, Browser!Alive,
          Browser!EndpointFresh, Launched
  <1>3. CASE Browser!Publish
    <2>2. RunningYounger'
      BY <1>3 DEF Browser!Publish, RunningYounger
    <2>3. OldPortSeen'
      BY <1>3 DEF Browser!Publish, OldPortSeen, RunningYounger
    <2>4. NothingConnected'
      BY <1>3 DEF Browser!Publish, NothingConnected
    <2>5. OwnGone'
      BY <1>3 DEF Browser!Publish, OwnGone, Browser!Alive
    <2>6. Browser!EndpointFresh'
      BY <1>3 DEF Browser!Publish, Browser!EndpointFresh, OldPortSeen, NothingConnected
    <2> QED BY <2>2, <2>3, <2>4, <2>5, <2>6
  <1>4. CASE Browser!ChromeExits
    <2>2. RunningYounger'
      BY <1>4 DEF Browser!ChromeExits, RunningYounger
    <2>3. OldPortSeen'
      BY <1>4 DEF Browser!ChromeExits, OldPortSeen
    <2>4. NothingConnected'
      BY <1>4 DEF Browser!ChromeExits, NothingConnected
    <2>5. OwnGone'
      BY <1>4 DEF Browser!ChromeExits, OwnGone, Browser!Alive
    <2>6. Browser!EndpointFresh'
      BY <1>4 DEF Browser!ChromeExits, Browser!EndpointFresh
    <2> QED BY <2>2, <2>3, <2>4, <2>5, <2>6
  <1>5. ASSUME NEW c \in starting, Browser!TakeProfile(c) PROVE BrowserInv'
    <2>2. RunningYounger'
      BY <1>5 DEF Browser!TakeProfile, RunningYounger
    <2>3. OldPortSeen'
      BY <1>5 DEF Browser!TakeProfile, OldPortSeen
    <2>4. NothingConnected'
      BY <1>5 DEF Browser!TakeProfile, NothingConnected
    <2>5. OwnGone'
      BY <1>5 DEF Browser!TakeProfile, OwnGone, Browser!Alive
    <2>6. Browser!EndpointFresh'
      BY <1>5 DEF Browser!TakeProfile, Browser!EndpointFresh
    <2> QED BY <2>2, <2>3, <2>4, <2>5, <2>6
  <1>6. ASSUME NEW s \in Browsers, Browser!OpenForUser(s) PROVE BrowserInv'
    <2>0. starting' = starting \cup {launched'} /\ UNCHANGED <<owner, known>>
      BY <1>6 DEF Browser!OpenForUser
    <2>1. launched' \notin Launched /\ launched' # None
            /\ \A t \in Browsers : launched' \notin known[t]
      BY <1>6, NextChrome, NoneAssumption DEF Browser!OpenForUser
    <2>2. RunningYounger'
      <3>1. \A t \in Browsers : stage'[t] \in {"read", "launch", "wait"} =>
              stage[t] \in {"read", "launch", "wait"}
        BY <1>6 DEF Browser!OpenForUser
      <3> HIDE <1>0, <1>1 DEF BrowserTypes
      <3> QED BY <2>1, <2>0, <3>1 DEF RunningYounger
    <2>3. OldPortSeen'
      BY <1>6, <2>1, <2>0 DEF Browser!OpenForUser, OldPortSeen
    <2>4. NothingConnected'
      BY <1>6, <2>1, <2>0 DEF Browser!OpenForUser, NothingConnected
    <2>5. OwnGone'
      <3>1. /\ chrome' = chrome /\ \A t \in Browsers : chrome[t] # launched'
            /\ \A t \in Browsers : stage'[t] \in {"cleanup", "unlink", "done"} => stage'[t] = stage[t]
        BY <1>6, <2>1 DEF Browser!OpenForUser, Browser!Go
      <3>2. Browser!Alive' = Browser!Alive \cup {launched'}
        BY <2>0, <2>1 DEF Browser!Alive
      <3> QED BY <3>1, <3>2 DEF OwnGone
    <2>6. Browser!EndpointFresh'
      BY <1>6, <2>1, <2>0 DEF Browser!OpenForUser, Browser!EndpointFresh
    <2> QED BY <2>2, <2>3, <2>4, <2>5, <2>6
  <1>7. ASSUME NEW s \in Browsers, Browser!SignedIn(s) PROVE BrowserInv'
    <2>2. RunningYounger'
      BY <1>7 DEF Browser!SignedIn, RunningYounger
    <2>3. OldPortSeen'
      BY <1>7 DEF Browser!SignedIn, OldPortSeen
    <2>4. NothingConnected'
      BY <1>7 DEF Browser!SignedIn, NothingConnected
    <2>5. OwnGone'
      BY <1>7 DEF Browser!SignedIn, OwnGone, Browser!Alive
    <2>6. Browser!EndpointFresh'
      BY <1>7 DEF Browser!SignedIn, Browser!EndpointFresh
    <2> QED BY <2>2, <2>3, <2>4, <2>5, <2>6
  <1>8. ASSUME NEW s \in Browsers, Browser!Check(s) PROVE BrowserInv'
    <2>1. known' = [known EXCEPT ![s] = Launched]
      BY <1>8 DEF Browser!Check, Launched
    <2>2. RunningYounger'
      BY <1>8, <2>1 DEF Browser!Check, Browser!Alive, RunningYounger
    <2>3. OldPortSeen'
      BY <1>8, <2>1 DEF Browser!Check, Browser!Alive, OldPortSeen, RunningYounger
    <2>4. NothingConnected'
      BY <1>8, <2>1 DEF Browser!Check, Browser!Alive, NothingConnected
    <2>5. OwnGone'
      BY <1>8, <2>1 DEF Browser!Check, Browser!Alive, OwnGone
    <2>6. Browser!EndpointFresh'
      <3>1. connected' = connected /\ connected[s] = None /\ None \notin Launched
        BY <1>8, NoneAssumption DEF Browser!Check, Browser!At, NothingConnected, Launched
      <3>2. \A t \in Browsers : known'[t] = IF t = s THEN Launched ELSE known[t]
        BY <2>1
      <3> QED BY <3>1, <3>2 DEF Browser!EndpointFresh
    <2> QED BY <2>2, <2>3, <2>4, <2>5, <2>6
  <1>9. ASSUME NEW s \in Browsers, Browser!ReadPrevious(s) PROVE BrowserInv'
    <2>2. RunningYounger'
      BY <1>9 DEF Browser!ReadPrevious, RunningYounger
    <2>3. OldPortSeen'
      BY <1>9 DEF Browser!ReadPrevious, OldPortSeen
    <2>4. NothingConnected'
      BY <1>9 DEF Browser!ReadPrevious, NothingConnected
    <2>5. OwnGone'
      BY <1>9 DEF Browser!ReadPrevious, OwnGone, Browser!Alive
    <2>6. Browser!EndpointFresh'
      BY <1>9 DEF Browser!ReadPrevious, Browser!EndpointFresh
    <2> QED BY <2>2, <2>3, <2>4, <2>5, <2>6
  <1>10. ASSUME NEW s \in Browsers, Browser!Launch(s) PROVE BrowserInv'
    <2>0. starting' = starting \cup {launched'} /\ UNCHANGED <<owner, known>>
      BY <1>10 DEF Browser!Launch
    <2>1. launched' \notin Launched /\ launched' # None
            /\ \A t \in Browsers : launched' \notin known[t]
      BY <1>10, NextChrome, NoneAssumption DEF Browser!Launch
    <2>2. RunningYounger'
      <3>1. \A t \in Browsers : stage'[t] \in {"read", "launch", "wait"} =>
              stage[t] \in {"read", "launch", "wait"}
        BY <1>10 DEF Browser!Launch
      <3> HIDE <1>0, <1>1 DEF BrowserTypes
      <3> QED BY <2>1, <2>0, <3>1 DEF RunningYounger
    <2>3. OldPortSeen'
      BY <1>10, <2>1, <2>0 DEF Browser!Launch, OldPortSeen
    <2>4. NothingConnected'
      BY <1>10, <2>1, <2>0 DEF Browser!Launch, NothingConnected
    <2>5. OwnGone'
      <3>1. \A t \in Browsers : stage'[t] \in {"cleanup", "unlink", "done"}
              => stage[t] \in {"cleanup", "unlink", "done"} /\ chrome'[t] = chrome[t]
        BY <1>10 DEF Browser!Launch
      <3>2. \A t \in Browsers : chrome[t] # launched'
        BY <2>1
      <3> HIDE <1>0, <1>1 DEF BrowserTypes
      <3> QED BY <2>1, <2>0, <3>1, <3>2 DEF OwnGone, Browser!Alive
    <2>6. Browser!EndpointFresh'
      BY <1>10, <2>1, <2>0 DEF Browser!Launch, Browser!EndpointFresh
    <2> QED BY <2>2, <2>3, <2>4, <2>5, <2>6
  <1>11. ASSUME NEW s \in Browsers, Browser!Connect(s) PROVE BrowserInv'
    <2>2. RunningYounger'
      BY <1>11 DEF Browser!Connect, Browser!Fresh, RunningYounger
    <2>3. OldPortSeen'
      BY <1>11 DEF Browser!Connect, Browser!Fresh, OldPortSeen, RunningYounger
    <2>4. NothingConnected'
      BY <1>11 DEF Browser!Connect, Browser!Fresh, NothingConnected
    <2>5. OwnGone'
      BY <1>11 DEF Browser!Connect, Browser!Fresh, OwnGone, Browser!Alive
    <2>6. Browser!EndpointFresh'
      BY <1>11 DEF Browser!Connect, Browser!Fresh, Browser!EndpointFresh, OldPortSeen,
         NothingConnected
    <2> QED BY <2>2, <2>3, <2>4, <2>5, <2>6
  <1>12. ASSUME NEW s \in Browsers, Browser!WaitFails(s) PROVE BrowserInv'
    <2>2. RunningYounger'
      BY <1>12 DEF Browser!WaitFails, RunningYounger
    <2>3. OldPortSeen'
      BY <1>12 DEF Browser!WaitFails, OldPortSeen
    <2>4. NothingConnected'
      BY <1>12 DEF Browser!WaitFails, NothingConnected
    <2>5. OwnGone'
      BY <1>12 DEF Browser!WaitFails, OwnGone, Browser!Alive
    <2>6. Browser!EndpointFresh'
      BY <1>12 DEF Browser!WaitFails, Browser!EndpointFresh
    <2> QED BY <2>2, <2>3, <2>4, <2>5, <2>6
  <1>13. ASSUME NEW s \in Browsers, Browser!PageEnds(s) PROVE BrowserInv'
    <2>2. RunningYounger'
      BY <1>13 DEF Browser!PageEnds, RunningYounger
    <2>3. OldPortSeen'
      BY <1>13 DEF Browser!PageEnds, OldPortSeen
    <2>4. NothingConnected'
      BY <1>13 DEF Browser!PageEnds, NothingConnected
    <2>5. OwnGone'
      BY <1>13 DEF Browser!PageEnds, OwnGone, Browser!Alive
    <2>6. Browser!EndpointFresh'
      BY <1>13 DEF Browser!PageEnds, Browser!EndpointFresh
    <2> QED BY <2>2, <2>3, <2>4, <2>5, <2>6
  <1>14. ASSUME NEW s \in Browsers, Browser!Shutdown(s) PROVE BrowserInv'
    <2>2. RunningYounger'
      BY <1>14 DEF Browser!Shutdown, Browser!Dies, Browser!Alive, RunningYounger
    <2>3. OldPortSeen'
      BY <1>14 DEF Browser!Shutdown, Browser!Dies, Browser!Alive, OldPortSeen
    <2>4. NothingConnected'
      BY <1>14 DEF Browser!Shutdown, Browser!Dies, Browser!Alive, NothingConnected
    <2>5. OwnGone'
      BY <1>14 DEF Browser!Shutdown, Browser!Dies, Browser!Alive, OwnGone
    <2>6. Browser!EndpointFresh'
      BY <1>14 DEF Browser!Shutdown, Browser!Dies, Browser!Alive, Browser!EndpointFresh
    <2> QED BY <2>2, <2>3, <2>4, <2>5, <2>6
  <1>15. ASSUME NEW s \in Browsers, Browser!CleanupCheck(s) PROVE BrowserInv'
    <2>2. RunningYounger'
      BY <1>15 DEF Browser!CleanupCheck, Browser!Alive, RunningYounger
    <2>3. OldPortSeen'
      BY <1>15 DEF Browser!CleanupCheck, Browser!Alive, OldPortSeen
    <2>4. NothingConnected'
      BY <1>15 DEF Browser!CleanupCheck, Browser!Alive, NothingConnected
    <2>5. OwnGone'
      BY <1>15 DEF Browser!CleanupCheck, Browser!Alive, OwnGone
    <2>6. Browser!EndpointFresh'
      BY <1>15 DEF Browser!CleanupCheck, Browser!Alive, Browser!EndpointFresh
    <2> QED BY <2>2, <2>3, <2>4, <2>5, <2>6
  <1>16. ASSUME NEW s \in Browsers, Browser!Unlink(s) PROVE BrowserInv'
    <2>2. RunningYounger'
      BY <1>16 DEF Browser!Unlink, RunningYounger
    <2>3. OldPortSeen'
      BY <1>16 DEF Browser!Unlink, OldPortSeen
    <2>4. NothingConnected'
      BY <1>16 DEF Browser!Unlink, NothingConnected
    <2>5. OwnGone'
      BY <1>16 DEF Browser!Unlink, OwnGone, Browser!Alive
    <2>6. Browser!EndpointFresh'
      BY <1>16 DEF Browser!Unlink, Browser!EndpointFresh
    <2> QED BY <2>2, <2>3, <2>4, <2>5, <2>6
  <1>17. ASSUME NEW s \in Browsers, Browser!Kill(s) PROVE BrowserInv'
    <2>2. RunningYounger'
      BY <1>17 DEF Browser!Kill, RunningYounger
    <2>3. OldPortSeen'
      BY <1>17 DEF Browser!Kill, OldPortSeen
    <2>4. NothingConnected'
      BY <1>17 DEF Browser!Kill, NothingConnected
    <2>5. OwnGone'
      BY <1>17 DEF Browser!Kill, OwnGone, Browser!Alive
    <2>6. Browser!EndpointFresh'
      BY <1>17 DEF Browser!Kill, Browser!EndpointFresh
    <2> QED BY <2>2, <2>3, <2>4, <2>5, <2>6
  <1> QED BY <1>2, <1>3, <1>4, <1>5, <1>6, <1>7, <1>8, <1>9, <1>10, <1>11, <1>12, <1>13, <1>14,
     <1>15, <1>16, <1>17
       DEF Browser!Next, Browser!SessionStep, Browser!ChromeStep, browserVars

LEMMA BrowserHolds == Spec => []BrowserInv
  <1>1. BrowserInv /\ [Next]_all => BrowserInv'
    <2> SUFFICES ASSUME BrowserInv, [Next]_all PROVE BrowserInv'
      OBVIOUS
    <2>1. CASE Browser!Next
      BY <2>1, BrowserStep
    <2>2. CASE UNCHANGED browserVars
      BY <2>2, BrowserStep
    <2> QED BY <2>1, <2>2 DEF Next, all
  <1> QED BY <1>1, BrowserInit, PTL DEF Spec

(* A command never talks to a Chrome launched before it looked at the      *)
(* profile, however many commands race for it, Chromes crash and port      *)
(* files are left behind (_wait_for_fresh_cdp_port).                       *)
THEOREM EndpointsFresh == Spec => []EndpointFresh
  <1>1. BrowserInv => EndpointFresh
    BY DEF BrowserInv, EndpointFresh
  <1> QED BY <1>1, BrowserHolds, PTL

(* A command that ended by itself has left none of its Chromes running     *)
(* (the finally of BrowserStrategy).                                       *)
THEOREM ChromesReaped == Spec => []ChromeReaped
  <1>1. BrowserInv => ChromeReaped
    BY DEF BrowserInv, OwnGone, ChromeReaped, Browser!ChromeReaped
  <1> QED BY <1>1, BrowserHolds, PTL
-----------------------------------------------------------------------------
(* A SoundCloud capture asks for the pages of a listing in their order.    *)
SoundTypes ==
  /\ account.pages \in [SoundCloud!Listings -> 1 .. MaxListingPages] /\ account.loop \in Nat
  /\ scope \in {"account", "resource"}
  /\ listing \in SoundCloud!Listings \cup {"account", "resource", "ended"}
  /\ units \in [SoundCloud!Kinds -> SUBSET Nat]
  /\ warned \in BOOLEAN /\ cursor \in Nat /\ links \subseteq Nat

(* While nothing was warned of, either every page before the cursor was    *)
(* had, and only they, or the first page's link leads to itself and is     *)
(* about to be found out.                                                  *)
InOrder ==
  /\ cursor \in 1 .. account.pages[listing]
  /\ units[listing] = 1 .. cursor - 1
  /\ asked = cursor - 1
  /\ links = 2 .. cursor

FirstAgain == account.loop = 1 /\ cursor = 1 /\ links = {1}

ListingUnderWay == listing \in SoundCloud!Listings /\ ~warned => InOrder \/ FirstAgain

(* A listing that is left without a warning is whole, or at the cap.       *)
Had(l) == units[l] = 1 .. account.pages[l] \/ account.pages[l] > PageCap

ListingsLeft ==
  /\ listing \in {"account", "tracks"} => units["playlists"] = {}
  /\ listing = "account" => units["tracks"] = {}
  /\ listing = "playlists" /\ ~warned => Had("tracks")
  /\ exit = 0 /\ scope = "account" => Had("tracks") /\ Had("playlists")
  /\ exit = 0 /\ scope = "resource" => units["resource"] = {1}

Places ==
  /\ scope = "resource" => listing \in {"resource", "ended"}
  /\ scope = "account" => listing # "resource"
  /\ exit = 0 => listing = "ended"

SoundInv == SoundTypes /\ Places /\ ListingUnderWay /\ ListingsLeft

LEMMA SoundInit == Init => SoundInv
  <1> SUFFICES ASSUME SoundCloud!Init PROVE SoundInv
    BY DEF Init
  <1> USE PagesAssumption DEF SoundCloud!Init, SoundCloud!Listings, SoundCloud!Kinds,
        SoundCloud!Running
  <1>1. SoundTypes
    <2>1. /\ account \in [pages : [SoundCloud!Listings -> 1 .. MaxListingPages],
               loop : 0 .. MaxListingPages]
          /\ units = [l \in SoundCloud!Kinds |-> {}] /\ links = {} /\ cursor = 1 /\ warned = FALSE
          /\ scope \in {"account", "resource"} /\ listing = scope
      BY DEF SoundCloud!Init
    <2> HIDE DEF SoundCloud!Init, SoundCloud!Kinds, SoundCloud!Listings
    <2>2. account.pages \in [SoundCloud!Listings -> 1 .. MaxListingPages]
            /\ account.loop \in 0 .. MaxListingPages
      BY <2>1
    <2>3. account.loop \in Nat
      BY <2>2
    <2> QED BY <2>1, <2>2, <2>3 DEF SoundTypes
  <1>2. Places /\ ListingUnderWay /\ ListingsLeft
    BY DEF Places, ListingUnderWay, ListingsLeft
  <1> QED BY <1>1, <1>2 DEF SoundInv

(* What a page that arrives leads to: the listing is left, whole or at the *)
(* cap, or goes on in order, unless a warning is due.                      *)
Leaving == SoundCloud!NextHref \in links \cup {0} \/ asked + 1 = PageCap

LEMMA PageInOrder ==
  ASSUME SoundInv, NEW l \in SoundCloud!Listings, listing = l, SoundCloud!Page, ~warned'
  PROVE  /\ Leaving => Had(l)'
         /\ ~Leaving => listing' = l /\ (InOrder' \/ FirstAgain')
  <1> DEFINE P == account.pages[l]
  <1>1. /\ ~warned /\ SoundCloud!NextHref \notin links
        /\ units' = [units EXCEPT ![l] = @ \cup {cursor}] /\ UNCHANGED account
    BY DEF SoundInv, SoundTypes, SoundCloud!Page
  <1>2. ~FirstAgain
    BY <1>1 DEF FirstAgain, SoundCloud!NextHref
  <1>3. InOrder
    BY <1>1, <1>2 DEF SoundInv, ListingUnderWay
  <1>4. /\ account.pages \in [SoundCloud!Listings -> 1 .. MaxListingPages]
        /\ account.loop \in Nat /\ units \in [SoundCloud!Kinds -> SUBSET Nat]
             /\ l \in SoundCloud!Kinds
    BY <1>1 DEF SoundInv, SoundTypes, SoundCloud!Kinds
  <1>5. P \in Nat /\ cursor \in Nat /\ 1 <= cursor /\ cursor <= P
    BY <1>1, <1>3, <1>4, PagesAssumption DEF InOrder
  <1>6. units'[l] = 1 .. cursor
    <2>1. units'[l] = units[l] \cup {cursor}
      BY <1>1, <1>4
    <2> QED BY <2>1, <1>3, <1>5 DEF InOrder
  <1>7. SoundCloud!NextHref =
          IF account.loop = cursor THEN cursor ELSE IF cursor < P THEN cursor + 1 ELSE 0
    BY DEF SoundCloud!NextHref
  <1>8. account.loop = cursor => cursor = 1
    BY <1>1, <1>3, <1>5, <1>7 DEF InOrder
  <1>9. P' = P
    BY <1>1
  <1> HIDE DEF P
  <1>10. Leaving => units'[l] = 1 .. P \/ P > PageCap
    <2>1. SoundCloud!NextHref = 0 => cursor = P
      BY <1>5, <1>7
    <2>2. asked + 1 = PageCap => cursor = P \/ P > PageCap
      BY <1>3, <1>5 DEF InOrder
    <2> QED BY <1>1, <1>6, <2>1, <2>2 DEF Leaving
  <1>11. ASSUME ~Leaving PROVE listing' = l /\ (InOrder' \/ FirstAgain')
    <2>1. /\ listing' = l /\ cursor' = SoundCloud!NextHref /\ asked' = asked + 1
          /\ links' = links \cup {SoundCloud!NextHref}
      BY <1>11 DEF Leaving, SoundCloud!Page
    <2>2. CASE account.loop = cursor
      <3>1. cursor' = 1 /\ links = {} /\ account.loop = 1
        BY <1>3, <1>7, <1>8, <2>1, <2>2 DEF InOrder
      <3> QED BY <3>1, <2>1, <1>1 DEF FirstAgain
    <2>3. CASE account.loop # cursor
      <3>1. cursor < P /\ cursor' = cursor + 1
        BY <1>5, <1>7, <1>11, <2>1, <2>3 DEF Leaving
      <3>2. links' = 2 .. cursor + 1 /\ asked' = cursor
        BY <3>1, <2>1, <1>3, <1>5 DEF InOrder
      <3>3. 1 .. cursor' - 1 = 1 .. cursor /\ cursor' \in 1 .. P
        BY <3>1, <1>5
      <3>4. cursor' \in 1 .. account'.pages[l]
        BY <3>3, <1>9 DEF P
      <3>5. units'[l] = 1 .. cursor' - 1 /\ asked' = cursor' - 1 /\ links' = 2 .. cursor'
        BY <3>1, <3>2, <3>3, <1>5, <1>6
      <3> QED BY <3>4, <3>5, <2>1 DEF InOrder
    <2> QED BY <2>2, <2>3
  <1> QED BY <1>9, <1>10, <1>11 DEF Had, P

(* Where a listing is left for. *)
LEMMA Left ==
  ASSUME SoundCloud!Leave
  PROVE  /\ listing = "tracks" =>
              listing' = "playlists" /\ cursor' = 1 /\ links' = {} /\ asked' = 0 /\ exit' = exit
         /\ listing = "playlists" =>
              /\ listing' = "ended" /\ cursor' = cursor /\ links' = links
              /\ exit' = IF warned' THEN 2 ELSE 0
  BY DEF SoundCloud!Leave, SoundCloud!Begin, SoundCloud!Ends

LEMMA SoundTypesStep == SoundInv /\ SoundCloud!Next => SoundTypes' /\ Places'
  <1> SUFFICES ASSUME SoundInv, SoundCloud!Next PROVE SoundTypes' /\ Places'
    OBVIOUS
  <1> USE DEF SoundInv, SoundTypes, Places, SoundCloud!Listings, SoundCloud!Kinds,
              SoundCloud!Begin, SoundCloud!Ends
  <1>1. CASE SoundCloud!Profile
    BY <1>1 DEF SoundCloud!Profile
  <1>2. CASE SoundCloud!Resolve
    BY <1>2 DEF SoundCloud!Resolve
  <1>3. CASE SoundCloud!Page
    <2>1. /\ listing \in SoundCloud!Listings /\ scope = "account" /\ exit # 0
          /\ units' = [units EXCEPT ![listing] = @ \cup {cursor}]
          /\ warned' \in BOOLEAN /\ UNCHANGED <<scope, account>>
      BY <1>3 DEF SoundCloud!Page
    <2>2. SoundCloud!NextHref \in Nat
      BY <1>3 DEF SoundCloud!NextHref
    <2>3. CASE SoundCloud!Leave
      <3>1. units' \in [SoundCloud!Kinds -> SUBSET Nat]
        BY <2>1
      <3>2. /\ cursor' \in Nat /\ links' \subseteq Nat /\ listing' \in {"playlists", "ended"}
            /\ listing' = "playlists" => exit' = exit
        <4>1. CASE listing = "tracks"
          BY <2>3, <4>1, Left
        <4>2. CASE listing = "playlists"
          BY <2>3, <4>2, Left
        <4> QED BY <2>1, <4>1, <4>2
      <3> QED BY <2>1, <3>1, <3>2
    <2>4. CASE ~SoundCloud!Leave
      <3>1. UNCHANGED <<listing, exit>> /\ cursor' = SoundCloud!NextHref
            /\ links' = links \cup {SoundCloud!NextHref}
        BY <1>3, <2>4 DEF SoundCloud!Page
      <3> QED BY <2>1, <2>2, <3>1
    <2> QED BY <2>3, <2>4
  <1>4. CASE SoundCloud!Retry
    BY <1>4 DEF SoundCloud!Retry
  <1>5. CASE SoundCloud!RequestFails
    <2>1. CASE listing \in {"account", "resource"} /\ SoundCloud!Ends(1) /\ UNCHANGED warned
      BY <1>5, <2>1 DEF SoundCloud!RequestFails
    <2>2. CASE listing \in SoundCloud!Listings /\ warned' = TRUE /\ SoundCloud!Leave
      <3>1. UNCHANGED <<scope, account, units>> /\ scope = "account" /\ exit # 0
        BY <1>5, <2>2 DEF SoundCloud!RequestFails
      <3>2. /\ cursor' \in Nat /\ links' \subseteq Nat /\ listing' \in {"playlists", "ended"}
            /\ listing' = "playlists" => exit' = exit
        <4>1. CASE listing = "tracks"
          BY <2>2, <4>1, Left
        <4>2. CASE listing = "playlists"
          BY <2>2, <4>2, Left
        <4> QED BY <2>2, <4>1, <4>2
      <3> QED BY <2>2, <3>1, <3>2
    <2> QED BY <1>5, <2>1, <2>2 DEF SoundCloud!RequestFails
  <1>6. CASE SoundCloud!RetryAfterDate
    BY <1>6 DEF SoundCloud!RetryAfterDate
  <1> QED BY <1>1, <1>2, <1>3, <1>4, <1>5, <1>6 DEF SoundCloud!Next, SoundCloud!Process

LEMMA SoundStep == SoundInv /\ [SoundCloud!Next]_soundVars => SoundInv'
  <1> SUFFICES ASSUME SoundInv, [SoundCloud!Next]_soundVars PROVE SoundInv'
    OBVIOUS
  <1>1. CASE UNCHANGED soundVars
    BY <1>1 DEF soundVars, SoundInv, SoundTypes, Places, ListingUnderWay, ListingsLeft, InOrder,
                FirstAgain, Had
  <1>2. ASSUME SoundCloud!Next PROVE SoundTypes' /\ Places'
    BY <1>2, SoundTypesStep
  <1> USE DEF SoundInv, Places, SoundCloud!Listings, SoundCloud!Begin, SoundCloud!Ends
  <1>3. CASE SoundCloud!Profile
    <2>1. /\ listing = "account" /\ listing' = "tracks" /\ cursor' = 1 /\ links' = {} /\ asked' = 0
          /\ UNCHANGED <<scope, account, units, warned, exit>>
      BY <1>3 DEF SoundCloud!Profile
    <2>2. account'.pages["tracks"] \in 1 .. MaxListingPages
      BY <2>1 DEF SoundTypes
    <2>3. InOrder'
      BY <2>1, <2>2, PagesAssumption DEF InOrder, ListingsLeft
    <2> QED BY <2>1, <2>3, <1>2, <1>3 DEF ListingUnderWay, ListingsLeft, SoundCloud!Next,
       SoundCloud!Process
  <1>4. CASE SoundCloud!Resolve
    BY <1>2, <1>4 DEF SoundCloud!Resolve, SoundCloud!Next, SoundCloud!Process, ListingUnderWay,
       ListingsLeft,
       SoundTypes, SoundCloud!Kinds
  <1>5. CASE SoundCloud!Page
    <2>1. /\ listing \in {"tracks", "playlists"} /\ scope = "account" /\ exit # 0
          /\ units' = [units EXCEPT ![listing] = @ \cup {cursor}]
          /\ warned \in BOOLEAN /\ (warned => warned') /\ UNCHANGED <<scope, account>>
      BY <1>5 DEF SoundCloud!Page, SoundTypes
    <2>2. /\ units'["playlists"] = units["playlists"] \/ listing = "playlists"
          /\ units'["tracks"] = units["tracks"] \/ listing = "tracks"
      BY <2>1 DEF SoundTypes, SoundCloud!Kinds
    <2>3. ~warned' /\ listing = "playlists" => Had("tracks")'
      BY <2>1, <2>2 DEF Had, ListingsLeft
    <2>4. CASE Leaving
      <3>1. SoundCloud!Leave
        BY <1>5, <2>4 DEF Leaving, SoundCloud!Page
      <3>2. CASE listing = "tracks"
        <4>1. ~warned' => Had("tracks")'
          BY <1>5, <2>4, <3>2, PageInOrder
        <4>2. listing' = "playlists" /\ cursor' = 1 /\ links' = {} /\ asked' = 0 /\ exit' # 0
          BY <2>1, <3>1, <3>2, Left
        <4>3. InOrder'
          <5>1. units'["playlists"] = {} /\ account'.pages["playlists"] \in 1 .. MaxListingPages
            BY <2>1, <2>2, <3>2 DEF ListingsLeft, SoundTypes
          <5> QED BY <5>1, <4>2, PagesAssumption DEF InOrder
        <4> QED BY <1>2, <1>5, <4>1, <4>2, <4>3
                DEF SoundCloud!Next, SoundCloud!Process, ListingUnderWay, ListingsLeft
      <3>3. CASE listing = "playlists"
        <4>1. ~warned' => Had("playlists")' /\ Had("tracks")'
          BY <1>5, <2>3, <2>4, <3>3, PageInOrder
        <4>2. listing' = "ended" /\ exit' = IF warned' THEN 2 ELSE 0
          BY <3>1, <3>3, Left
        <4> QED BY <1>2, <1>5, <2>1, <4>1, <4>2
                DEF SoundCloud!Next, SoundCloud!Process, ListingUnderWay, ListingsLeft
      <3> QED BY <2>1, <3>2, <3>3
    <2>5. CASE ~Leaving
      <3>1. UNCHANGED <<listing, exit>>
        BY <1>5, <2>5 DEF Leaving, SoundCloud!Page
      <3>2. ~warned' => InOrder' \/ FirstAgain'
        BY <1>5, <2>1, <2>5, PageInOrder
      <3>3. listing = "tracks" => units'["playlists"] = {}
        BY <2>2 DEF ListingsLeft
      <3> QED BY <1>2, <1>5, <2>1, <2>3, <3>1, <3>2, <3>3
              DEF SoundCloud!Next, SoundCloud!Process, ListingUnderWay, ListingsLeft
    <2> QED BY <2>4, <2>5
  <1>6. CASE SoundCloud!Retry
    BY <1>2, <1>6 DEF SoundCloud!Retry, SoundCloud!Next, SoundCloud!Process, ListingUnderWay,
       ListingsLeft,
       InOrder, FirstAgain, Had
  <1>7. CASE SoundCloud!RequestFails
    <2>1. CASE listing \in {"account", "resource"} /\ SoundCloud!Ends(1) /\ UNCHANGED warned
      <3>1. UNCHANGED <<scope, account, units>> /\ listing' = "ended" /\ exit' = 1
        BY <1>7, <2>1 DEF SoundCloud!RequestFails
      <3> QED BY <1>2, <1>7, <3>1
              DEF SoundCloud!Next, SoundCloud!Process, ListingUnderWay, ListingsLeft
    <2>2. CASE listing \in SoundCloud!Listings /\ warned' = TRUE /\ SoundCloud!Leave
      <3>1. UNCHANGED <<scope, account, units>> /\ exit # 0
        BY <1>7, <2>2 DEF SoundCloud!RequestFails
      <3>2. listing' \in {"playlists", "ended"} /\ exit' # 0
        BY <2>2, <3>1, Left
      <3> QED BY <1>2, <1>7, <2>2, <3>1, <3>2
              DEF SoundCloud!Next, SoundCloud!Process, ListingUnderWay, ListingsLeft
    <2> QED BY <1>7, <2>1, <2>2 DEF SoundCloud!RequestFails
  <1>8. CASE SoundCloud!RetryAfterDate
    BY <1>2, <1>8 DEF SoundCloud!RetryAfterDate, SoundCloud!Next, SoundCloud!Process,
       ListingUnderWay, ListingsLeft
  <1> QED BY <1>1, <1>3, <1>4, <1>5, <1>6, <1>7, <1>8 DEF SoundCloud!Next, SoundCloud!Process

LEMMA SoundHolds == Spec => []SoundInv
  <1>1. SoundInv /\ [Next]_all => SoundInv'
    <2> SUFFICES ASSUME SoundInv, [Next]_all PROVE SoundInv'
      OBVIOUS
    <2>1. CASE SoundCloud!Next
      BY <2>1, SoundStep
    <2>2. CASE UNCHANGED soundVars
      BY <2>2, SoundStep
    <2> QED BY <2>1, <2>2 DEF Next, all
  <1> QED BY <1>1, SoundInit, PTL DEF Spec

(* Exit code 0 of a SoundCloud capture means the source, or both listings  *)
(* of the account up to the page cap, whatever failed on the way, wherever *)
(* a link leads and however many pages there are (strategies/api.py).      *)
THEOREM SuccessMeansAllPages == Spec => []ExitZeroMeansAll
  <1>1. SoundInv => ExitZeroMeansAll
    BY DEF SoundInv, SoundTypes, ListingsLeft, Had, ExitZeroMeansAll, SoundCloud!ExitZeroMeansAll,
           SoundCloud!Listings
  <1> QED BY <1>1, SoundHolds, PTL
-----------------------------------------------------------------------------
(* What Chrome leaves under a name: one version, or the first half of it.  *)
Forms == {b \in Nat \X (Nat \cup {Cut}) : b[2] \in {b[1], Cut}}

SnapshotTypes ==
  /\ files \in [Snapshot!Names -> Forms] /\ mtime \in [Snapshot!Names -> Nat]
  /\ writes \in Nat /\ \A n \in Snapshot!Names : mtime[n] <= writes
  /\ try \in Nat
  /\ step \in {"look", "open", "read", "compare", "done", "failed"}
  /\ backup \in Forms \cup {None}

(* Where the modification time is the one read first, nothing was written  *)
(* since, and the bytes read so far are those of the file.                 *)
ReadUndisturbed ==
  step \in {"open", "read", "compare"} =>
    /\ before.modified \in Nat /\ before.modified <= writes
    /\ mtime[Snapshot!Name] = before.modified =>
         /\ held = None
         /\ step = "read" => bytes = <<files[Snapshot!Name][1], Cut>>
         /\ step = "compare" => bytes = files[Snapshot!Name]

NothingHeld == step # "read" => held = None

(* The fallback is tried only where the backup can be parsed. *)
BackupParsed == try > Attempts => backup # None /\ Snapshot!Parses(backup)

SnapshotInv == SnapshotTypes /\ ReadUndisturbed /\ NothingHeld /\ BackupParsed

LEMMA PairForms ==
  /\ \A v \in Nat : <<v, v>> \in Forms /\ <<v, Cut>> \in Forms
  /\ \A b \in Forms : b[1] \in Nat /\ b = <<b[1], b[2]>> /\ (b[2] # Cut => b[1] = b[2])
  BY DEF Forms

LEMMA SnapshotInit == Init => SnapshotInv
  <1> SUFFICES ASSUME Snapshot!Init PROVE SnapshotInv
    BY DEF Init
  <1> USE AttemptsAssumption, PairForms DEF Snapshot!Init
  <1>1. SnapshotTypes
    <2>1. <<0, 0>> \in Forms /\ <<0, Cut>> \in Forms
      OBVIOUS
    <2>2. files \in [Snapshot!Names -> Forms]
      BY <2>1
    <2>3. \A n \in Snapshot!Names : mtime[n] = 0
      OBVIOUS
    <2> QED BY <2>2, <2>3 DEF SnapshotTypes
  <1> QED BY <1>1 DEF SnapshotInv, ReadUndisturbed, NothingHeld, BackupParsed

(* Chrome writes: the time of the file that is written is a later one.     *)
LEMMA ChromeWrites ==
  ASSUME SnapshotInv, NEW n \in Snapshot!Names, NEW b \in Forms, Snapshot!Writes(n, b),
         held' = held \/ (step = "read" /\ Snapshot!Name = n)
  PROVE  SnapshotInv'
  <1>1. /\ writes' = writes + 1 /\ files' = [files EXCEPT ![n] = b]
        /\ mtime' = [mtime EXCEPT ![n] = writes']
        /\ UNCHANGED <<step, try, before, bytes, backup>>
    BY DEF Snapshot!Writes
  <1>2. Snapshot!Name' = Snapshot!Name /\ Snapshot!Name \in Snapshot!Names
    BY <1>1 DEF Snapshot!Name, Snapshot!Names
  <1>3. SnapshotTypes'
    BY <1>1 DEF SnapshotInv, SnapshotTypes
  <1>4. ReadUndisturbed'
    <2>1. CASE n = Snapshot!Name
      BY <1>1, <1>2, <2>1 DEF SnapshotInv, SnapshotTypes, ReadUndisturbed
    <2>2. CASE n # Snapshot!Name
      BY <1>1, <1>2, <2>2 DEF SnapshotInv, SnapshotTypes, ReadUndisturbed
    <2> QED BY <2>1, <2>2
  <1>5. NothingHeld' /\ BackupParsed'
    BY <1>1 DEF SnapshotInv, NothingHeld, BackupParsed, Snapshot!Parses
  <1> QED BY <1>3, <1>4, <1>5 DEF SnapshotInv

LEMMA SnapshotReads ==
  ASSUME SnapshotInv, Snapshot!Look \/ Snapshot!ReadFirst \/ Snapshot!ReadRest
  PROVE  SnapshotInv'
  <1> USE DEF SnapshotInv, Snapshot!Chrome
  <1>1. /\ UNCHANGED <<files, mtime, writes, try, backup>> /\ Snapshot!Name' = Snapshot!Name
        /\ Snapshot!Name \in Snapshot!Names
    BY DEF Snapshot!Look, Snapshot!ReadFirst, Snapshot!ReadRest, Snapshot!Name, Snapshot!Names
  <1>2. SnapshotTypes' /\ NothingHeld' /\ BackupParsed'
    BY <1>1 DEF Snapshot!Look, Snapshot!ReadFirst, Snapshot!ReadRest, SnapshotTypes, NothingHeld,
       BackupParsed, Snapshot!Parses
  <1>3. CASE Snapshot!Look
    <2>1. before'.modified = mtime[Snapshot!Name] /\ step' = "open" /\ held' = None
      BY <1>3 DEF Snapshot!Look, Snapshot!Metadata, NothingHeld
    <2> QED BY <1>1, <1>2, <2>1 DEF ReadUndisturbed, SnapshotTypes
  <1>4. CASE Snapshot!ReadFirst
    BY <1>1, <1>2, <1>4 DEF Snapshot!ReadFirst, ReadUndisturbed
  <1>5. CASE Snapshot!ReadRest
    <2>1. mtime[Snapshot!Name] = before.modified => bytes' = files[Snapshot!Name]
      <3> SUFFICES ASSUME mtime[Snapshot!Name] = before.modified PROVE bytes' = files[Snapshot!Name]
        OBVIOUS
      <3> DEFINE f == files[Snapshot!Name]
      <3>1. bytes = <<f[1], Cut>> /\ Snapshot!Inode = f
        BY <1>5 DEF Snapshot!ReadRest, ReadUndisturbed, Snapshot!Inode
      <3>2. bytes' = [bytes EXCEPT ![2] = f[2]]
        BY <1>5, <3>1 DEF Snapshot!ReadRest
      <3>3. f = <<f[1], f[2]>>
        BY <1>1, PairForms DEF SnapshotTypes
      <3> HIDE DEF f
      <3>4. bytes' = <<f[1], f[2]>>
        BY <3>1, <3>2
      <3> QED BY <3>3, <3>4 DEF f
    <2> QED BY <1>1, <1>2, <1>5, <2>1 DEF Snapshot!ReadRest, ReadUndisturbed
  <1> QED BY <1>3, <1>4, <1>5

(* What a stable read has read. *)
LEMMA StableRead ==
  ASSUME SnapshotInv, step = "compare", Snapshot!Stable
  PROVE  bytes = files[Snapshot!Name] /\ bytes \in Forms
  <1>1. before.modified = mtime[Snapshot!Name]
    BY DEF Snapshot!Stable, Snapshot!Metadata
  <1> QED BY <1>1 DEF SnapshotInv, SnapshotTypes, ReadUndisturbed, Snapshot!Name, Snapshot!Names

LEMMA SnapshotDecides ==
  ASSUME SnapshotInv, Snapshot!BackupRead \/ Snapshot!Attempt \/ Snapshot!Fallback
  PROVE  SnapshotInv'
  <1> USE AttemptsAssumption DEF SnapshotInv, Snapshot!Chrome
  <1>1. UNCHANGED <<files, mtime, writes, held>> /\ step' \in {"look", "done", "failed"}
    BY DEF Snapshot!BackupRead, Snapshot!Attempt, Snapshot!Fallback, Snapshot!Again
  <1>2. NothingHeld' /\ ReadUndisturbed'
    BY <1>1 DEF NothingHeld, ReadUndisturbed, Snapshot!BackupRead, Snapshot!Attempt,
       Snapshot!Fallback
  <1>3. CASE Snapshot!BackupRead
    <2>1. backup' \in Forms \cup {None}
      BY <1>3, StableRead DEF Snapshot!BackupRead
    <2> QED BY <1>1, <1>2, <1>3, <2>1 DEF Snapshot!BackupRead, SnapshotTypes, BackupParsed
  <1>4. CASE Snapshot!Attempt
    BY <1>1, <1>2, <1>4 DEF Snapshot!Attempt, Snapshot!Again, SnapshotTypes, BackupParsed,
       Snapshot!Parses
  <1>5. CASE Snapshot!Fallback
    BY <1>1, <1>2, <1>5 DEF Snapshot!Fallback, SnapshotTypes, BackupParsed, Snapshot!Parses
  <1> QED BY <1>3, <1>4, <1>5

LEMMA SnapshotStep == SnapshotInv /\ [Snapshot!Next]_snapshotVars => SnapshotInv'
  <1> SUFFICES ASSUME SnapshotInv, [Snapshot!Next]_snapshotVars PROVE SnapshotInv'
    OBVIOUS
  <1>1. CASE UNCHANGED snapshotVars
    BY <1>1 DEF snapshotVars, SnapshotInv, SnapshotTypes, ReadUndisturbed, NothingHeld,
       BackupParsed,
       Snapshot!Name, Snapshot!Parses
  <1>2. CASE Snapshot!Snapshot
    BY <1>2, SnapshotReads, SnapshotDecides DEF Snapshot!Snapshot
  <1>3. ASSUME NEW n \in Snapshot!Names, Snapshot!Replace(n) PROVE SnapshotInv'
    <2>1. writes' = writes + 1 /\ writes' \in Nat
      BY <1>3 DEF SnapshotInv, SnapshotTypes, Snapshot!Replace, Snapshot!Writes
    <2> QED BY <1>3, <2>1, PairForms, ChromeWrites DEF Snapshot!Replace
  <1>4. ASSUME NEW n \in Snapshot!Names, Snapshot!Rewrite(n) PROVE SnapshotInv'
    <2>1. writes' = writes + 1 /\ writes' \in Nat
      BY <1>4 DEF SnapshotInv, SnapshotTypes, Snapshot!Rewrite, Snapshot!Writes
    <2> QED BY <1>4, <2>1, PairForms, ChromeWrites DEF Snapshot!Rewrite
  <1>5. ASSUME NEW n \in Snapshot!Names, Snapshot!RewriteRest(n) PROVE SnapshotInv'
    <2>1. files[n][1] \in Nat
      BY PairForms DEF SnapshotInv, SnapshotTypes
    <2> QED BY <1>5, <2>1, PairForms, ChromeWrites DEF Snapshot!RewriteRest
  <1> QED BY <1>1, <1>2, <1>3, <1>4, <1>5 DEF Snapshot!Next

(* Only a decision gives bytes away, and only those of one version. *)
LEMMA SnapshotSelects ==
  ASSUME SnapshotInv, Snapshot!Next, selected' # selected
  PROVE  Snapshot!Whole(selected') /\ (try <= Attempts => selected' = files["Bookmarks"])
  <1> USE AttemptsAssumption, PairForms DEF Snapshot!Chrome
  <1>1. Snapshot!Attempt \/ Snapshot!Fallback
    BY DEF Snapshot!Next, Snapshot!Snapshot, Snapshot!Look, Snapshot!ReadFirst, Snapshot!ReadRest,
       Snapshot!BackupRead, Snapshot!Replace, Snapshot!Rewrite, Snapshot!RewriteRest,
         Snapshot!Writes
  <1>2. CASE Snapshot!Attempt
    <2>1. step = "compare" /\ try # 0 /\ Snapshot!Stable /\ Snapshot!Parses(bytes)
            /\ selected' = bytes
      BY <1>2 DEF Snapshot!Attempt
    <2>2. bytes = files["Bookmarks"] /\ bytes \in Forms
      BY <2>1, StableRead DEF Snapshot!Name
    <2> QED BY <2>1, <2>2 DEF Snapshot!Parses, Snapshot!Whole
  <1>3. CASE Snapshot!Fallback
    <2>1. try > Attempts /\ selected' = backup
      BY <1>3 DEF Snapshot!Fallback
    <2>2. backup \in Forms /\ Snapshot!Parses(backup)
      BY <2>1 DEF SnapshotInv, SnapshotTypes, BackupParsed
    <2> QED BY <2>1, <2>2 DEF Snapshot!Parses, Snapshot!Whole, SnapshotInv, SnapshotTypes
  <1> QED BY <1>1, <1>2, <1>3

LEMMA SnapshotHolds == Spec => []SnapshotInv
  <1>1. SnapshotInv /\ [Next]_all => SnapshotInv'
    <2> SUFFICES ASSUME SnapshotInv, [Next]_all PROVE SnapshotInv'
      OBVIOUS
    <2>1. CASE Snapshot!Next
      BY <2>1, SnapshotStep
    <2>2. CASE UNCHANGED snapshotVars
      BY <2>2, SnapshotStep
    <2> QED BY <2>1, <2>2 DEF Next, all
  <1> QED BY <1>1, SnapshotInit, PTL DEF Spec

(* The bytes of a bookmarks snapshot are one whole version of the file,    *)
(* however often Chrome writes or renames while it is read without a lock  *)
(* (snapshot.py, _stable_read).                                            *)
THEOREM SnapshotsConsistent == Spec => SnapshotConsistent
  <1> DEFINE Good == selected' # selected =>
                       /\ Snapshot!Whole(selected')
                       /\ try <= Attempts => selected' = files["Bookmarks"]
  <1>1. SnapshotInv /\ [Next]_all => [Good]_snapshotVars
    <2> SUFFICES ASSUME SnapshotInv, [Next]_all, ~UNCHANGED snapshotVars PROVE Good
      BY DEF snapshotVars
    <2>1. Snapshot!Next
      BY DEF Next, all
    <2> QED BY <2>1, SnapshotSelects
  <1>2. [][Good]_snapshotVars => SnapshotConsistent
    BY DEF SnapshotConsistent, Snapshot!SnapshotConsistent, snapshotVars, Snapshot!snapshotVars
  <1> HIDE DEF Good
  <1> QED BY <1>1, <1>2, SnapshotHolds, PTL DEF Spec
-----------------------------------------------------------------------------
(* A nonempty set of naturals has a least element. *)
LEMMA Least ==
  ASSUME NEW T \in SUBSET Nat, T # {}
  PROVE  \E x \in T : \A y \in T : x <= y
  <1> DEFINE R == OpToRel(<, Nat)
  <1>1. \A x, y \in Nat : y < x => <<y, x>> \in R
    BY DEF OpToRel
  <1>2. IsWellFoundedOn(R, Nat)
    BY NatLessThanWellFounded
  <1> HIDE DEF R
  <1>3. PICK x \in T : \A y \in T : ~ (<<y, x>> \in R)
    BY <1>2, WFMin
  <1>4. \A y \in T : x \in Nat /\ y \in Nat /\ ~(y < x)
    BY <1>1, <1>3
  <1>5. \A y \in T : x <= y
    BY <1>4
  <1> QED BY <1>5

Failed == {"auth", "denied", "error"}

Lookups == {"workspace", "pages", "legacy", "detail", "lyrics", "aligned"}

States == [cookie : Nat, session : Nat \cup {None}, jwt : Nat \cup {None}, active : BOOLEAN]

SunoTypes ==
  /\ memory \in States /\ stored \in States
  /\ call \in [stage : {"idle", "ensure", "refresh", "send", "answered"}, retry : BOOLEAN,
               sent : Nat, answer : Failed \cup {"reply", None}]
  /\ fetch \in [origin : {"api", "cdn", None}, authenticate : BOOLEAN, hop : Nat, left : BOOLEAN]
  /\ phase \in Lookups \cup {"idle", "assets"}
  /\ errors \in Nat
  /\ project \in Suno!Projects

(* Credentials are kept for an origin that was never left. *)
Trusted == fetch.authenticate => fetch.origin = "api" /\ ~fetch.left

(* Where the capture stands and what it waits for.                         *)
Standing ==
  /\ phase = "idle" => call = Suno!Idle
  /\ phase # "assets" => fetch = Suno!NoFetch
  /\ phase = "assets" /\ fetch = Suno!NoFetch => call = Suno!Idle
  /\ phase # "idle" => outcome = None

(* What may fail a capture, besides tokens that expire. *)
Excused == errors > 0 \/ ended # {} \/ memory.session # memory.cookie

(* A request that failed has such a reason: one that is sent a second time *)
(* has a token that was just issued.                                       *)
RequestsExcused ==
  /\ call.stage = "answered" => call.answer # None
  /\ call.answer \in Failed => call.stage = "answered" /\ Excused
  /\ phase \in Lookups /\ call.stage = "send" => memory.jwt # None /\ (~call.retry => memory.active)

OutcomesExcused == outcome \in Failed => Excused

(* The assets to download are those of the clips found.                    *)
Jobs ==
  /\ found \subseteq 1 .. project.clips
  /\ phase \in Lookups => assets = {}
  /\ phase = "assets" => /\ jobs = AssetKinds \X (found \ project.hidden)
                         /\ assets \subseteq jobs /\ todo \subseteq jobs
                         /\ fetch # Suno!NoFetch => todo # {}

SunoInv ==
  /\ SunoTypes /\ Trusted /\ Standing /\ RequestsExcused /\ OutcomesExcused /\ Jobs
  /\ Suno!CompleteMeansArchived

LEMMA SunoInit == Init => SunoInv
  <1> SUFFICES ASSUME Suno!Init PROVE SunoInv
    BY DEF Init
  <1> USE NoneAssumption DEF Suno!Init, Suno!ClientInit, Suno!NoState, Suno!Idle, Suno!NoFetch
  <1>1. SunoTypes
    BY DEF SunoTypes, States, Failed, Lookups
  <1>2. Trusted /\ Standing
    BY DEF Trusted, Standing
  <1>3. RequestsExcused /\ OutcomesExcused
    BY DEF RequestsExcused, OutcomesExcused, Failed
  <1>4. Jobs /\ Suno!CompleteMeansArchived
    BY DEF Jobs, Suno!CompleteMeansArchived, Lookups
  <1> QED BY <1>1, <1>2, <1>3, <1>4 DEF SunoInv

(* The next asset is one that is left. *)
LEMMA JobLeft ==
  ASSUME todo \subseteq AssetKinds \X Nat, todo # {}
  PROVE  Suno!Job \in todo
  <1> DEFINE Ks == {j[1] : j \in todo}
  <1>1. Ks \in SUBSET Nat /\ Ks # {}
    BY SunoAssumption
  <1>2. PICK k \in Ks : \A y \in Ks : k <= y
    <2> HIDE DEF Ks
    <2> QED BY <1>1, Least
  <1> DEFINE Cs == {j[2] : j \in {i \in todo : i[1] = k}}
  <1>3. Cs \in SUBSET Nat /\ Cs # {}
    OBVIOUS
  <1>4. PICK c \in Cs : \A y \in Cs : c <= y
    <2> HIDE DEF Cs
    <2> QED BY <1>3, Least
  <1>5. PICK j \in todo : j[1] = k /\ j[2] = c
    OBVIOUS
  <1>6. \A i \in todo : i[1] \in Nat /\ i[2] \in Nat
    BY SunoAssumption
  <1>7. \A i \in todo : j[1] < i[1] \/ (j[1] = i[1] /\ j[2] <= i[2])
    BY <1>2, <1>4, <1>5, <1>6
  <1> QED BY <1>7 DEF Suno!Job

(* A lookup leads to another one. *)
LEMMA LookupGoesOn ==
  ASSUME SunoInv, phase \in Lookups, phase' \in Lookups, Suno!Ask, Suno!Kept,
         found' \subseteq 1 .. project.clips, UNCHANGED <<jobs, assets>>
  PROVE  SunoInv'
  <1>1. /\ UNCHANGED <<memory, stored, ended, errors, project, fetch, outcome, assets>>
        /\ outcome = None
        /\ call' = [stage |-> "ensure", retry |-> TRUE, sent |-> 0, answer |-> None]
    BY DEF Suno!Kept, Suno!auth, Suno!Ask, SunoInv, Standing, Lookups
  <1>2. SunoTypes'
    BY <1>1 DEF SunoInv, SunoTypes
  <1>3. Trusted' /\ Standing'
    BY <1>1 DEF SunoInv, Trusted, Standing, Lookups
  <1>4. RequestsExcused' /\ OutcomesExcused'
    BY <1>1, NoneAssumption DEF RequestsExcused, OutcomesExcused, Failed
  <1>5. Jobs' /\ Suno!CompleteMeansArchived'
    BY <1>1, NoneAssumption DEF SunoInv, Jobs, Lookups, Suno!CompleteMeansArchived
  <1> QED BY <1>2, <1>3, <1>4, <1>5 DEF SunoInv

(* The lookups are over. *)
LEMMA DownloadsBegin ==
  ASSUME SunoInv, phase \in Lookups, NEW h, Suno!StartDownloads(h),
           h = project.hidden \/ found = {},
         Suno!Kept, UNCHANGED <<found, assets>>
  PROVE  SunoInv'
  <1>1. /\ UNCHANGED <<memory, stored, ended, errors, project, fetch, outcome, found, assets>>
        /\ call' = Suno!Idle /\ phase' = "assets" /\ fetch = Suno!NoFetch /\ assets = {}
        /\ outcome = None
    BY DEF Suno!Kept, Suno!auth, Suno!StartDownloads, SunoInv, Standing, Jobs, Lookups
  <1>2. jobs' = AssetKinds \X (found \ project.hidden) /\ todo' = jobs'
    BY <1>1 DEF Suno!StartDownloads, Suno!Candidates
  <1>3. SunoTypes'
    BY <1>1, NoneAssumption DEF SunoInv, SunoTypes, Suno!Idle
  <1>4. Trusted' /\ Standing'
    BY <1>1 DEF SunoInv, Trusted, Standing, Suno!Idle, Suno!NoFetch
  <1>5. RequestsExcused' /\ OutcomesExcused'
    BY <1>1, NoneAssumption DEF RequestsExcused, OutcomesExcused, Failed, Suno!Idle
  <1>6. Jobs' /\ Suno!CompleteMeansArchived'
    BY <1>1, <1>2, NoneAssumption
       DEF SunoInv, Jobs, Lookups, Suno!CompleteMeansArchived, Suno!NoFetch
  <1> QED BY <1>3, <1>4, <1>5, <1>6 DEF SunoInv

(* A capture ends with a verdict that holds. *)
LEMMA CaptureEnds ==
  ASSUME SunoInv, fetch = Suno!NoFetch,
         phase' = "idle", call' = Suno!Idle, outcome' \in Failed => Excused',
         UNCHANGED <<memory, stored, ended, project, found, jobs, assets, fetch>>, errors' \in Nat,
         Suno!CompleteMeansArchived'
  PROVE  SunoInv'
  <1>1. SunoTypes'
    BY NoneAssumption DEF SunoInv, SunoTypes, Suno!Idle
  <1>2. Trusted' /\ Standing'
    BY DEF SunoInv, Trusted, Standing, Suno!Idle, Suno!NoFetch
  <1>3. RequestsExcused' /\ OutcomesExcused'
    BY NoneAssumption DEF RequestsExcused, OutcomesExcused, Failed, Suno!Idle, Lookups
  <1>4. Jobs'
    BY DEF SunoInv, Jobs, Lookups, Suno!NoFetch
  <1> QED BY <1>1, <1>2, <1>3, <1>4 DEF SunoInv

LEMMA LookupStep == SunoInv /\ (Suno!Capture \/ Suno!Lookup) => SunoInv'
  <1> SUFFICES ASSUME SunoInv, Suno!Capture \/ Suno!Lookup PROVE SunoInv'
    OBVIOUS
  <1> USE DEF Suno!Replied, Suno!After, Suno!At, Suno!progress
  <1>0. project.clips \in Nat
    BY SunoAssumption DEF SunoInv, SunoTypes, Suno!Projects
  <1>1. CASE Suno!Capture
    <2>1. /\ call' = [stage |-> "ensure", retry |-> TRUE, sent |-> 0, answer |-> None]
          /\ phase' = "workspace" /\ memory' = stored /\ outcome' = None /\ fetch = Suno!NoFetch
          /\ found' = {} /\ jobs' = {} /\ assets' = {}
          /\ UNCHANGED <<stored, ended, errors, project, fetch>>
      BY <1>1 DEF Suno!Capture, Suno!Ask, SunoInv, Standing
    <2>2. SunoTypes'
      BY <2>1 DEF SunoInv, SunoTypes, Lookups
    <2>3. Trusted' /\ Standing'
      BY <2>1 DEF SunoInv, Trusted, Standing
    <2>4. RequestsExcused' /\ OutcomesExcused'
      BY <2>1, NoneAssumption DEF RequestsExcused, OutcomesExcused, Failed
    <2>5. Jobs' /\ Suno!CompleteMeansArchived'
      BY <2>1, NoneAssumption DEF Jobs, Lookups, Suno!CompleteMeansArchived
    <2> QED BY <2>2, <2>3, <2>4, <2>5 DEF SunoInv
  <1>2. CASE Suno!RouteMissing
    <2>1. phase \in Lookups
      BY <1>2 DEF Suno!RouteMissing, Suno!Routes, Lookups
    <2>2. Suno!Ask /\ Suno!Kept /\ UNCHANGED <<phase, todo, found, jobs, assets>>
      BY <1>2 DEF Suno!RouteMissing
    <2> QED BY <2>1, <2>2, LookupGoesOn DEF SunoInv, Jobs
  <1>3. CASE Suno!WorkspaceMissing
    <2>1. /\ fetch = Suno!NoFetch /\ outcome' = "missing" /\ phase' = "idle" /\ call' = Suno!Idle
          /\ UNCHANGED <<memory, stored, ended, errors, project, found, jobs, assets, fetch>>
      BY <1>3 DEF Suno!WorkspaceMissing, Suno!End, Suno!auth, SunoInv, Standing, Suno!Routes
    <2> QED BY <2>1, CaptureEnds DEF Failed, Suno!CompleteMeansArchived, SunoInv, SunoTypes
  <1>4. CASE Suno!LookupRaises
    <2>1. /\ fetch = Suno!NoFetch /\ outcome' = call.answer /\ phase' = "idle" /\ call' = Suno!Idle
          /\ UNCHANGED <<memory, stored, ended, errors, project, found, jobs, assets, fetch>>
      BY <1>4 DEF Suno!LookupRaises, Suno!End, Suno!auth, SunoInv, Standing, Suno!Routes
    <2>2. call.answer \in Failed /\ Excused
      BY <1>4 DEF Suno!LookupRaises, SunoInv, SunoTypes, RequestsExcused
    <2>3. Excused'
      BY <2>1, <2>2 DEF Excused
    <2> QED BY <2>1, <2>2, <2>3, CaptureEnds DEF Failed, Suno!CompleteMeansArchived, SunoInv,
       SunoTypes
  <1>5. CASE Suno!WorkspaceFound
    BY <1>0, <1>5, LookupGoesOn DEF Suno!WorkspaceFound, Suno!PageOf, Lookups
  <1>6. CASE Suno!PageFound
    <2>1. found' \subseteq 1 .. project.clips
      BY <1>6 DEF Suno!PageFound, Suno!PageOf, SunoInv, Jobs
    <2>2. phase \in Lookups /\ phase' \in Lookups /\ Suno!Ask /\ Suno!Kept
            /\ UNCHANGED <<jobs, assets>>
      BY <1>6 DEF Suno!PageFound, Lookups
    <2> QED BY <2>1, <2>2, LookupGoesOn
  <1>7. CASE Suno!PageMissing \/ Suno!LyricsDone \/ Suno!DetailDone
    <2>1. phase \in Lookups /\ phase' \in Lookups /\ Suno!Ask /\ Suno!Kept
            /\ UNCHANGED <<found, jobs, assets>>
      BY <1>7 DEF Suno!PageMissing, Suno!LyricsDone, Suno!DetailDone, Suno!EachClip, Lookups
    <2> QED BY <2>1, LookupGoesOn DEF SunoInv, Jobs
  <1>8. CASE Suno!LegacyDone
    <2>1. phase \in Lookups /\ Suno!Kept /\ UNCHANGED <<found, assets>>
      BY <1>8 DEF Suno!LegacyDone, Lookups
    <2>2. CASE found = {}
      BY <1>8, <2>1, <2>2, DownloadsBegin DEF Suno!LegacyDone
    <2>3. CASE found # {}
      <3>1. phase' \in Lookups /\ Suno!Ask /\ UNCHANGED jobs
        BY <1>8, <2>3 DEF Suno!LegacyDone, Lookups
      <3> QED BY <2>1, <3>1, LookupGoesOn DEF SunoInv, Jobs
    <2> QED BY <2>2, <2>3
  <1>9. CASE Suno!AlignedDone
    <2>1. phase \in Lookups /\ Suno!Kept /\ UNCHANGED <<found, assets>>
      BY <1>9 DEF Suno!AlignedDone, Lookups
    <2>2. CASE todo = {Suno!First(todo)}
      BY <1>9, <2>1, <2>2, DownloadsBegin DEF Suno!AlignedDone
    <2>3. CASE todo # {Suno!First(todo)}
      <3>1. phase' \in Lookups /\ Suno!Ask /\ UNCHANGED jobs
        BY <1>9, <2>3 DEF Suno!AlignedDone, Lookups
      <3> QED BY <2>1, <3>1, LookupGoesOn DEF SunoInv, Jobs
    <2> QED BY <2>2, <2>3
  <1> QED BY <1>1, <1>2, <1>3, <1>4, <1>5, <1>6, <1>7, <1>8, <1>9 DEF Suno!Lookup

LEMMA DownloadStep == SunoInv /\ Suno!Download => SunoInv'
  <1> SUFFICES ASSUME SunoInv, Suno!Download PROVE SunoInv'
    OBVIOUS
  <1>1. /\ phase = "assets" /\ phase' = "assets" /\ outcome = None
        /\ UNCHANGED <<memory, stored, ended, errors, project, found, jobs, outcome>>
    BY DEF Suno!Download, Suno!StartDownload, Suno!Redirect, Suno!Body, Suno!DownloadFails,
       Suno!Downloaded, Suno!Downloading, Suno!NotFetching, Suno!auth, SunoInv, Standing
  <1>2. CASE Suno!StartDownload \/ Suno!Redirect
    <2>1. /\ fetch' \in [origin : {"api", "cdn", None}, authenticate : BOOLEAN, hop : Nat,
               left : BOOLEAN]
          /\ fetch'.hop # 0 /\ (fetch'.authenticate => fetch'.origin = "api" /\ ~fetch'.left)
      <3>1. CASE Suno!StartDownload
        <4>1. PICK o \in {"api", "cdn"} : fetch' = [origin |-> o, authenticate |-> o = "api",
                hop |-> 1,
                                                   left |-> o # "api"]
          BY <3>1 DEF Suno!StartDownload
        <4>2. fetch'.hop = 1 /\ fetch'.origin = o
          BY <4>1
        <4>3. fetch'.authenticate => o = "api"
          BY <4>1
        <4>4. fetch'.left => o # "api"
          BY <4>1
        <4>5. fetch' \in [origin : {"api", "cdn", None}, authenticate : BOOLEAN, hop : Nat,
                left : BOOLEAN]
          BY <4>1
        <4> QED BY <4>2, <4>3, <4>4, <4>5
      <3>2. CASE Suno!Redirect
        <4>1. PICK o \in {"api", "cdn"} :
                fetch' = [origin |-> o, authenticate |-> fetch.authenticate /\ o = fetch.origin,
                          hop |-> fetch.hop + 1, left |-> fetch.left \/ o # "api"]
          BY <3>2 DEF Suno!Redirect
        <4>2. fetch.hop \in Nat /\ fetch.left \in BOOLEAN /\ fetch.authenticate \in BOOLEAN
          BY DEF SunoInv, SunoTypes
        <4>3. fetch'.hop = fetch.hop + 1 /\ fetch'.origin = o
          BY <4>1
        <4>4. fetch'.authenticate => fetch.authenticate /\ o = fetch.origin
          BY <4>1
        <4>5. fetch'.left => fetch.left \/ o # "api"
          BY <4>1
        <4>6. fetch' \in [origin : {"api", "cdn", None}, authenticate : BOOLEAN, hop : Nat,
                left : BOOLEAN]
          BY <4>1, <4>2
        <4>7. fetch'.authenticate => fetch'.origin = "api" /\ ~fetch'.left
          BY <4>3, <4>4, <4>5 DEF SunoInv, Trusted
        <4> QED BY <4>2, <4>3, <4>6, <4>7
      <3> QED BY <1>2, <3>1, <3>2
    <2>2. /\ call'.stage \in {"ensure", "send"} /\ call'.answer = None
          /\ call' \in [stage : {"idle", "ensure", "refresh", "send", "answered"}, retry : BOOLEAN,
                        sent : Nat, answer : Failed \cup {"reply", None}]
      <3>1. \/ call' = [stage |-> "ensure", retry |-> FALSE, sent |-> 0, answer |-> None]
            \/ call' = [stage |-> "send", retry |-> FALSE, sent |-> 0, answer |-> None]
        BY <1>2, Zenon DEF Suno!StartDownload, Suno!Redirect, Suno!Approach
      <3>2. CASE call' = [stage |-> "ensure", retry |-> FALSE, sent |-> 0, answer |-> None]
        BY <3>2
      <3>3. CASE call' = [stage |-> "send", retry |-> FALSE, sent |-> 0, answer |-> None]
        BY <3>3
      <3> QED BY <3>1, <3>2, <3>3
    <2>3. UNCHANGED <<todo, assets>> /\ todo # {}
      BY <1>2 DEF Suno!StartDownload, Suno!Redirect, Suno!Downloading, SunoInv, Jobs
    <2>4. fetch' # Suno!NoFetch
      BY <2>1 DEF Suno!NoFetch
    <2>5. SunoTypes'
      BY <1>1, <2>1, <2>2 DEF SunoInv, SunoTypes
    <2>6. Trusted' /\ Standing'
      BY <1>1, <2>1, <2>4 DEF Trusted, Standing
    <2>7. RequestsExcused' /\ OutcomesExcused'
      BY <1>1, <2>2, NoneAssumption DEF RequestsExcused, OutcomesExcused, Failed, Lookups
    <2>8. Jobs' /\ Suno!CompleteMeansArchived'
      BY <1>1, <2>3, NoneAssumption DEF SunoInv, Jobs, Lookups, Suno!CompleteMeansArchived
    <2> QED BY <2>5, <2>6, <2>7, <2>8 DEF SunoInv
  <1>3. CASE Suno!Body \/ Suno!DownloadFails
    <2>1. /\ fetch # Suno!NoFetch /\ fetch' = Suno!NoFetch /\ call' = Suno!Idle
          /\ assets' \subseteq assets \cup {Suno!Job} /\ todo' = todo \ {Suno!Job}
      BY <1>3 DEF Suno!Body, Suno!DownloadFails, Suno!Downloaded, Suno!Downloading
    <2>2. todo # {} /\ todo \subseteq jobs /\ assets \subseteq jobs
          /\ jobs = AssetKinds \X (found \ project.hidden) /\ found \subseteq 1 .. project.clips
      BY <1>1, <2>1 DEF SunoInv, Jobs
    <2>3. project.clips \in Nat
      BY SunoAssumption DEF SunoInv, SunoTypes, Suno!Projects
    <2>4. jobs \subseteq AssetKinds \X Nat
      <3>1. 1 .. project.clips \subseteq Nat
        BY <2>3
      <3> DEFINE clips == found \ project.hidden
      <3>2. clips \subseteq Nat
        BY <2>2, <3>1
      <3>3. jobs = AssetKinds \X clips
        BY <2>2
      <3> HIDE DEF clips
      <3> QED BY <3>2, <3>3
    <2>5. Suno!Job \in jobs
      BY <2>2, <2>4, JobLeft
    <2>6. SunoTypes'
      BY <1>1, <2>1, NoneAssumption DEF SunoInv, SunoTypes, Suno!Idle, Suno!NoFetch
    <2>7. Trusted' /\ Standing'
      BY <1>1, <2>1 DEF Trusted, Standing, Suno!Idle, Suno!NoFetch
    <2>8. RequestsExcused' /\ OutcomesExcused'
      BY <1>1, <2>1, NoneAssumption DEF RequestsExcused, OutcomesExcused, Failed, Lookups, Suno!Idle
    <2>9. Jobs' /\ Suno!CompleteMeansArchived'
      BY <1>1, <2>1, <2>2, <2>5, NoneAssumption
         DEF SunoInv, Jobs, Lookups, Suno!CompleteMeansArchived, Suno!NoFetch
    <2> QED BY <2>6, <2>7, <2>8, <2>9 DEF SunoInv
  <1> QED BY <1>2, <1>3 DEF Suno!Download

(* The instance has a Cardinality of its own. *)
LEMMA SameCardinality == \A S : Suno!Cardinality(S) = Cardinality(S)
  BY DEF Suno!Cardinality, Cardinality

LEMMA IntervalSize == \A n \in Nat : IsFiniteSet(1 .. n) /\ Cardinality(1 .. n) = n
  <1> SUFFICES ASSUME NEW n \in Nat PROVE IsFiniteSet(1 .. n) /\ Cardinality(1 .. n) = n
    OBVIOUS
  <1>1. 1 \in Int /\ n \in Int /\ (IF 1 > n THEN 0 ELSE n - 1 + 1) = n
    OBVIOUS
  <1> QED BY <1>1, FS_Interval

(* The verdict "complete": as many assets as jobs are all of them, and as  *)
(* many clips as the workspace counts are all of it.                       *)
LEMMA StoreStep == SunoInv /\ (Suno!Store \/ Suno!StoreFails) => SunoInv'
  <1> SUFFICES ASSUME SunoInv, Suno!Store \/ Suno!StoreFails PROVE SunoInv'
    OBVIOUS
  <1>1. /\ phase = "assets" /\ fetch = Suno!NoFetch /\ phase' = "idle" /\ call' = Suno!Idle
        /\ UNCHANGED <<memory, stored, ended, project, found, jobs, assets, fetch>>
    BY DEF Suno!Store, Suno!StoreFails, Suno!Done, Suno!End, Suno!auth, Suno!progress
  <1>2. errors \in Nat /\ project.clips \in Nat
    BY SunoAssumption DEF SunoInv, SunoTypes, Suno!Projects
  <1>3. /\ jobs = AssetKinds \X (found \ project.hidden) /\ assets \subseteq jobs
        /\ found \subseteq 1 .. project.clips
    BY <1>1 DEF SunoInv, Jobs
  <1>4. CASE Suno!Store
    <2>1. outcome' \in {"complete", "partial"} /\ UNCHANGED errors
      BY <1>4 DEF Suno!Store, Suno!End
    <2>2. ASSUME outcome' = "complete", project.counted, project.hidden = {}
          PROVE  assets = AssetKinds \X (1 .. project.clips)
      <3>1. Cardinality(assets) = Cardinality(jobs) /\ Cardinality(found) >= project.clips
        <4>1. outcome' = IF Cardinality(assets) = Cardinality(jobs)
                /\ (project.counted => Suno!Counted(found))
                           THEN "complete" ELSE "partial"
          BY <1>4, SameCardinality DEF Suno!Store, Suno!End
        <4>2. Cardinality(assets) = Cardinality(jobs) /\ (project.counted => Suno!Counted(found))
          BY <2>2, <4>1, Zenon
        <4>3. Suno!Counted(found)
          BY <2>2, <4>2, Zenon
        <4> QED BY <4>2, <4>3, SameCardinality DEF Suno!Counted
      <3>2. IsFiniteSet(1 .. project.clips) /\ Cardinality(1 .. project.clips) = project.clips
        BY <1>2, IntervalSize
      <3>3. /\ IsFiniteSet(found) /\ Cardinality(found) <= Cardinality(1 .. project.clips)
            /\ Cardinality(1 .. project.clips) = Cardinality(found) => 1 .. project.clips = found
        BY <1>3, <3>2, FS_Subset
      <3>4. Cardinality(found) \in Nat
        BY <3>3, FS_CardinalityType
      <3>5. found = 1 .. project.clips
        BY <1>2, <3>1, <3>2, <3>3, <3>4
      <3>6. jobs = AssetKinds \X found
        BY <1>3, <2>2
      <3>7. IsFiniteSet(jobs)
        BY <3>3, <3>6, SunoAssumption, FS_Product
      <3>8. jobs = assets
        BY <1>3, <3>1, <3>7, FS_Subset
      <3> QED BY <3>5, <3>6, <3>8
    <2>3. Suno!CompleteMeansArchived'
      BY <1>1, <2>2 DEF Suno!CompleteMeansArchived
    <2> QED BY <1>1, <1>2, <2>1, <2>3, CaptureEnds DEF Failed
  <1>5. CASE Suno!StoreFails
    <2>1. errors' = errors + 1 /\ outcome' = "error"
      BY <1>5 DEF Suno!StoreFails
    <2>2. errors' \in Nat /\ Excused'
      BY <1>2, <2>1 DEF Excused
    <2> QED BY <1>1, <2>1, <2>2, CaptureEnds DEF Suno!CompleteMeansArchived
  <1> QED BY <1>4, <1>5

(* The reasons a request may fail for do not go away under it. *)
LEMMA RequestingStep == SunoInv /\ Suno!Requesting => SunoInv'
  <1> SUFFICES ASSUME SunoInv, Suno!Requesting PROVE SunoInv'
    OBVIOUS
  <1> DEFINE Calls == [stage : {"idle", "ensure", "refresh", "send", "answered"}, retry : BOOLEAN,
                       sent : Nat, answer : Failed \cup {"reply", None}]
  <1>1. UNCHANGED <<project, phase, todo, found, jobs, assets, fetch, outcome>>
    BY DEF Suno!Requesting, Suno!captureVars, Suno!progress
  <1>2. call.stage \in {"ensure", "refresh", "send"} /\ call \in Calls /\ errors \in Nat
        /\ memory \in States /\ stored \in States
    BY DEF SunoInv, SunoTypes, Suno!Requesting, Suno!EnsureJwt, Suno!RefreshSession,
       Suno!RefreshJwt,
       Suno!RequestFails, Suno!Request, Suno!Send, Suno!At
  <1>3. call.answer \notin Failed
    BY <1>2 DEF SunoInv, RequestsExcused
  <1>4. phase # "idle" /\ outcome = None /\ (phase = "assets" => fetch # Suno!NoFetch)
    BY <1>2 DEF SunoInv, Standing, Suno!Idle
  <1>5. /\ memory' \in States /\ stored' \in States /\ call' \in Calls /\ errors' \in Nat
        /\ call'.stage = "answered" => call'.answer # None
        /\ call'.answer \in Failed => call'.stage = "answered" /\ Excused'
        /\ phase \in Lookups /\ call'.stage = "send" => memory'.jwt # None
             /\ (~call'.retry => memory'.active)
    <2> USE NoneAssumption DEF Suno!At, Suno!auth, Failed
    <2>1. call.retry \in BOOLEAN /\ call.sent \in Nat /\ call.answer \in {"reply", None}
      BY <1>2, <1>3
    <2>2. CASE Suno!EnsureJwt
      <3>1. PICK st \in {"refresh", "send"} :
              call' = [call EXCEPT !.stage = st]
                /\ (st = "send" => memory.jwt # None /\ memory.active)
        BY <1>2, <2>2 DEF Suno!EnsureJwt, Suno!Move, States
      <3>2. call' \in Calls /\ call'.stage = st /\ call'.answer = call.answer
        BY <1>2, <3>1
      <3>3. UNCHANGED <<memory, stored, errors>>
        BY <2>2 DEF Suno!EnsureJwt
      <3> QED BY <1>2, <1>3, <3>1, <3>2, <3>3
    <2>3. CASE Suno!RefreshSession
      <3>1. CASE memory.cookie \in ended
        <4>1. call' = [call EXCEPT !.stage = "answered", !.answer = "auth"]
                /\ UNCHANGED <<memory, stored, errors, ended>>
          BY <2>3, <3>1 DEF Suno!RefreshSession, Suno!Answer
        <4>2. call' \in Calls /\ call'.stage = "answered" /\ call'.answer = "auth"
          BY <1>2, <4>1
        <4> QED BY <1>2, <3>1, <4>1, <4>2 DEF Excused
      <3>2. CASE memory.cookie \notin ended
        <4>1. memory' = [memory EXCEPT !.session = memory.cookie]
                /\ UNCHANGED <<call, stored, errors>>
              /\ call.stage = "refresh"
          BY <2>3, <3>2 DEF Suno!RefreshSession
        <4>2. memory' \in States
          BY <1>2, <4>1 DEF States
        <4> QED BY <1>2, <1>3, <4>1, <4>2
      <3> QED BY <3>1, <3>2
    <2>4. CASE Suno!RefreshJwt
      <3>1. CASE memory.session = memory.cookie /\ memory.session \notin ended
        <4>1. /\ memory' = [memory EXCEPT !.jwt = memory.session, !.active = TRUE]
                   /\ stored' = memory'
              /\ call' = [call EXCEPT !.stage = "send"] /\ UNCHANGED errors /\ memory.session # None
          BY <2>4, <3>1 DEF Suno!RefreshJwt, Suno!Move
        <4>2. memory' \in States /\ memory'.jwt # None /\ memory'.active
          BY <1>2, <4>1 DEF States
        <4>3. call' \in Calls /\ call'.stage = "send" /\ call'.answer = call.answer
          BY <1>2, <4>1
        <4> QED BY <1>2, <1>3, <4>1, <4>2, <4>3
      <3>2. CASE ~(memory.session = memory.cookie /\ memory.session \notin ended)
        <4>1. call' = [call EXCEPT !.stage = "answered", !.answer = "auth"]
                /\ UNCHANGED <<memory, stored, errors, ended>>
          BY <2>4, <3>2 DEF Suno!RefreshJwt, Suno!Answer
        <4>2. call' \in Calls /\ call'.stage = "answered" /\ call'.answer = "auth"
          BY <1>2, <4>1
        <4> QED BY <1>2, <3>2, <4>1, <4>2 DEF Excused
      <3> QED BY <3>1, <3>2
    <2>5. CASE phase \in Lookups /\ Suno!Send
      <3>1. memory.jwt # None /\ (~call.retry => memory.active)
              /\ UNCHANGED <<memory, stored, ended>>
        BY <2>5 DEF SunoInv, RequestsExcused, Suno!Send
      <3>2. CASE Suno!Reply /\ UNCHANGED errors
        <4>1. call' \in Calls /\ call'.stage = "answered" /\ call'.answer = "reply"
          <5>1. call' = [stage |-> "answered", retry |-> call.retry, sent |-> call.sent + 1,
                         answer |-> "reply"]
            BY <1>2, <3>2 DEF Suno!Reply
          <5>2. call.sent + 1 \in Nat
            BY <2>1
          <5> QED BY <2>1, <5>1, <5>2
        <4> QED BY <1>2, <3>1, <3>2, <4>1
      <3>3. CASE Suno!Refuses /\ Suno!Again
        <4>1. call' \in Calls /\ call'.stage = "refresh" /\ call'.answer = call.answer
          <5>1. call' = [stage |-> "refresh", retry |-> FALSE, sent |-> call.sent + 1,
                         answer |-> call.answer]
            BY <1>2, <3>3 DEF Suno!Again
          <5>2. call.sent + 1 \in Nat
            BY <2>1
          <5> QED BY <2>1, <5>1, <5>2
        <4>2. errors' \in Nat
          BY <1>2, <3>3 DEF Suno!Refuses
        <4> QED BY <1>2, <1>3, <3>1, <4>1, <4>2
      <3>4. CASE ~call.retry /\ Suno!Refuses /\ Suno!Denied
        <4>1. call' \in Calls /\ call'.stage = "answered" /\ call'.answer = "denied"
          <5>1. call' = [stage |-> "answered", retry |-> call.retry, sent |-> call.sent + 1,
                         answer |-> "denied"]
            BY <1>2, <3>4 DEF Suno!Denied
          <5>2. call.sent + 1 \in Nat
            BY <2>1
          <5> QED BY <2>1, <5>1, <5>2
        <4>2. errors' \in Nat /\ (errors' > 0 \/ ended # {})
          BY <1>2, <3>1, <3>4 DEF Suno!Refuses, Suno!Accepted
        <4> QED BY <1>2, <3>1, <4>1, <4>2 DEF Excused
      <3> QED BY <2>5, <3>2, <3>3, <3>4 DEF Suno!Send
    <2>6. CASE Suno!RequestFails
      <3>1. /\ call' \in Calls /\ call'.stage = "answered" /\ call'.answer \in {"auth", "error"}
            /\ errors' = errors + 1 /\ UNCHANGED <<memory, stored>>
        BY <1>2, <2>6 DEF Suno!RequestFails, Suno!Answer
      <3>2. Excused' /\ errors' \in Nat
        BY <1>2, <3>1 DEF Excused
      <3> QED BY <1>2, <3>1, <3>2
    <2>7. Suno!Downloading \/ phase \in Lookups
      BY <1>4 DEF Suno!Downloading, SunoInv, SunoTypes
    <2> QED BY <2>2, <2>3, <2>4, <2>5, <2>6, <2>7 DEF Suno!Requesting, Suno!Request
  <1>6. SunoTypes'
    BY <1>1, <1>5 DEF SunoInv, SunoTypes
  <1>7. Trusted' /\ Standing'
    BY <1>1, <1>4 DEF SunoInv, Trusted, Standing
  <1>8. RequestsExcused' /\ OutcomesExcused'
    BY <1>1, <1>4, <1>5, NoneAssumption DEF RequestsExcused, OutcomesExcused, Failed
  <1>9. Jobs' /\ Suno!CompleteMeansArchived'
    BY <1>1 DEF SunoInv, Jobs, Suno!CompleteMeansArchived
  <1> QED BY <1>6, <1>7, <1>8, <1>9 DEF SunoInv

LEMMA EnvironmentStep == SunoInv /\ Suno!Environment /\ UNCHANGED Suno!captureVars => SunoInv'
  <1> SUFFICES ASSUME SunoInv, Suno!Environment, UNCHANGED Suno!captureVars PROVE SunoInv'
    OBVIOUS
  <1>1. UNCHANGED <<project, phase, todo, found, jobs, assets, fetch, outcome, call, errors>>
    BY DEF Suno!Environment, Suno!Expire, Suno!EndSession, Suno!Renew, Suno!captureVars,
       Suno!progress
  <1>2. memory \in States /\ stored \in States
    BY DEF SunoInv, SunoTypes
  <1>3. /\ memory' \in States /\ stored' \in States /\ (ended # {} => ended' # {})
        /\ memory'.session = memory.session /\ memory'.cookie = memory.cookie
             /\ memory'.jwt = memory.jwt
        /\ call.stage = "send" /\ ~call.retry => memory'.active = memory.active
    <2>1. CASE Suno!Expire
      BY <1>2, <2>1 DEF Suno!Expire, States, Suno!At
    <2>2. CASE Suno!EndSession
      BY <1>2, <2>2 DEF Suno!EndSession, Suno!Sessions
    <2>3. CASE Suno!Renew
      BY <1>2, <2>3 DEF Suno!Renew, States
    <2> QED BY <2>1, <2>2, <2>3 DEF Suno!Environment
  <1>4. Excused => Excused'
    BY <1>1, <1>3 DEF Excused
  <1>5. SunoTypes'
    BY <1>1, <1>3 DEF SunoInv, SunoTypes
  <1>6. Trusted' /\ Standing'
    BY <1>1 DEF SunoInv, Trusted, Standing
  <1>7. RequestsExcused' /\ OutcomesExcused'
    BY <1>1, <1>3, <1>4 DEF SunoInv, RequestsExcused, OutcomesExcused
  <1>8. Jobs' /\ Suno!CompleteMeansArchived'
    BY <1>1 DEF SunoInv, Jobs, Suno!CompleteMeansArchived
  <1> QED BY <1>5, <1>6, <1>7, <1>8 DEF SunoInv

LEMMA SunoHolds == Spec => []SunoInv
  <1>1. SunoInv /\ [Next]_all => SunoInv'
    <2> SUFFICES ASSUME SunoInv, [Next]_all PROVE SunoInv'
      OBVIOUS
    <2>1. CASE Suno!Next
      BY <2>1, LookupStep, DownloadStep, StoreStep, RequestingStep, EnvironmentStep
         DEF Suno!Next, Suno!Process
    <2>2. CASE UNCHANGED sunoVars
      BY <2>2 DEF sunoVars, SunoInv, SunoTypes, Trusted, Standing, RequestsExcused, OutcomesExcused,
         Excused, Jobs, Suno!CompleteMeansArchived
    <2> QED BY <2>1, <2>2 DEF Next, all
  <1> QED BY <1>1, SunoInit, PTL DEF Spec

(* The credentials of a Suno session go to the API's origin only, and not  *)
(* to it either once a redirect has left it, however long the chain is     *)
(* (docs/suno-audio.md; SunoClient's download).                            *)
THEOREM CredentialsStayScoped == Spec => []CredentialsScoped
  <1>1. SunoInv => CredentialsScoped
    BY DEF SunoInv, Trusted, CredentialsScoped, Suno!CredentialsScoped, Suno!Credentials
  <1> QED BY <1>1, SunoHolds, PTL

(* A capture of a counted workspace that is called complete holds every    *)
(* asset of every clip, for every workspace (archive/service.py).          *)
THEOREM CompleteCapturesArchive == Spec => []CompleteMeansArchived
  <1>1. SunoInv => CompleteMeansArchived
    BY DEF SunoInv, CompleteMeansArchived
  <1> QED BY <1>1, SunoHolds, PTL

(* A token that expires fails no capture, however often tokens expire      *)
(* (SunoClient._request and ensure_jwt).                                   *)
THEOREM CapturesSurviveExpiry == Spec => []SurvivesExpiry
  <1>1. SunoInv => SurvivesExpiry
    BY DEF SunoInv, OutcomesExcused, Excused, Failed, SurvivesExpiry, Suno!SurvivesExpiry
  <1> QED BY <1>1, SunoHolds, PTL
-----------------------------------------------------------------------------
(* What a page lists. *)
ItemsOf(s) == {s[i] : i \in DOMAIN s}

LEMMA PageItems ==
  ASSUME catalogue \in Seq(Nat), NEW n \in Nat \ {0}
  PROVE  /\ ItemsOf(Discovery!From(n)) \subseteq Discovery!Listed
         /\ \A i \in 1 .. Len(catalogue) :
              (n - 1) * PageSize < i /\ i <= n * PageSize =>
                catalogue[i] \in ItemsOf(Discovery!From(n))
         /\ Discovery!From(n) = <<>> => Len(catalogue) <= (n - 1) * PageSize
  <1> DEFINE lo == (n - 1) * PageSize
             hi == n * PageSize
             last == IF hi < Len(catalogue) THEN hi ELSE Len(catalogue)
             page == SubSeq(catalogue, lo + 1, last)
  <1>1. lo \in Nat /\ hi \in Nat /\ hi = lo + PageSize /\ PageSize \in Nat /\ PageSize > 0
    BY DiscoveryAssumption
  <1>2. PICK L \in Nat : L = Len(catalogue)
    OBVIOUS
  <1> HIDE DEF lo, hi
  <1>3. last \in Nat /\ last <= L /\ last <= hi /\ (last = L \/ last = hi)
    BY <1>1, <1>2
  <1>4. \A i \in lo + 1 .. last : i \in 1 .. L /\ catalogue[i] \in Nat
    BY <1>1, <1>2, <1>3
  <1> HIDE DEF last
  <1>5. /\ page \in Seq(Nat) /\ Len(page) = IF lo + 1 <= last THEN last - (lo + 1) + 1 ELSE 0
        /\ \A i \in 1 .. last - (lo + 1) + 1 : page[i] = catalogue[lo + 1 + i - 1]
    <2>1. lo + 1 \in Int /\ last \in Int
      BY <1>1, <1>3
    <2> QED BY <1>4, <2>1, SubSeqProperties
  <1>6. Discovery!From(n) = page
    BY DEF Discovery!From, lo, hi, last
  <1> HIDE DEF page
  <1>7. \A i \in 1 .. L : lo < i /\ i <= hi =>
          i - lo \in 1 .. Len(page) /\ page[i - lo] = catalogue[i]
    <2> SUFFICES ASSUME NEW i \in 1 .. L, lo < i, i <= hi
                 PROVE  i - lo \in 1 .. Len(page) /\ page[i - lo] = catalogue[i]
      OBVIOUS
    <2>1. i <= last /\ lo + 1 <= last
      BY <1>1, <1>3
    <2>2. i - lo \in 1 .. last - (lo + 1) + 1
      BY <1>1, <1>3, <2>1
    <2>4. Len(page) = last - (lo + 1) + 1
      BY <1>5, <2>1
    <2>3. lo + 1 + (i - lo) - 1 = i
      BY <1>1
    <2> QED BY <1>5, <2>2, <2>3, <2>4
  <1>8. ItemsOf(page) \subseteq Discovery!Listed
    <2> SUFFICES ASSUME NEW i \in DOMAIN page PROVE page[i] \in Discovery!Listed
      BY DEF ItemsOf
    <2>1. PICK n2 \in Nat : n2 = Len(page) /\ i \in 1 .. n2
      BY <1>5
    <2>2. n2 = last - (lo + 1) + 1
      BY <1>1, <1>3, <1>5, <2>1
    <2>3. page[i] = catalogue[lo + 1 + i - 1] /\ lo + 1 + i - 1 \in lo + 1 .. last
      BY <1>1, <1>3, <1>5, <2>1, <2>2
    <2>4. lo + 1 + i - 1 \in DOMAIN catalogue
      BY <1>2, <1>4, <2>3
    <2> QED BY <2>3, <2>4 DEF Discovery!Listed
  <1>9. page = <<>> => L <= lo
    <2> SUFFICES ASSUME page = <<>>, lo < L PROVE FALSE
      BY <1>1
    <2>1. Len(page) = 0
      BY EmptySeq
    <2>2. lo + 1 \in 1 .. L /\ lo < lo + 1 /\ lo + 1 <= hi
      BY <1>1
    <2>3. lo + 1 - lo \in 1 .. Len(page)
      BY <1>7, <2>2
    <2>4. lo + 1 - lo = 1
      BY <1>1
    <2> QED BY <2>1, <2>3, <2>4
  <1>10. \A i \in 1 .. L : lo < i /\ i <= hi => catalogue[i] \in ItemsOf(page)
    <2> SUFFICES ASSUME NEW i \in 1 .. L, lo < i, i <= hi PROVE catalogue[i] \in ItemsOf(page)
      OBVIOUS
    <2>1. i - lo \in 1 .. Len(page) /\ page[i - lo] = catalogue[i]
      BY <1>7
    <2>2. DOMAIN page = 1 .. Len(page)
      BY <1>5
    <2> QED BY <2>1, <2>2 DEF ItemsOf
  <1> QED BY <1>2, <1>6, <1>8, <1>9, <1>10 DEF lo, hi

(* The first k pages have been seen.  Removals, which shift the pages of   *)
(* what is left, are the business of CountKnown.                           *)
Upto(k) == \A i \in 1 .. Len(catalogue) : i <= k * PageSize => catalogue[i] \in seen

LEMMA OnePageMore ==
  ASSUME catalogue \in Seq(Nat), NEW n \in Nat \ {0}, Upto(n - 1), UNCHANGED catalogue,
         seen' = seen \cup ItemsOf(Discovery!From(n))
  PROVE  Upto(n)'
  <1> SUFFICES ASSUME NEW i \in 1 .. Len(catalogue), i <= n * PageSize PROVE catalogue[i] \in seen'
    BY DEF Upto
  <1>1. i \in Int /\ (n - 1) * PageSize \in Int
    BY DiscoveryAssumption
  <1>2. CASE i <= (n - 1) * PageSize
    BY <1>2 DEF Upto
  <1>3. CASE (n - 1) * PageSize < i
    BY <1>3, PageItems
  <1> QED BY <1>1, <1>2, <1>3

LEMMA PageBefore == \A m, n \in Nat : 1 <= m /\ m <= n + 1 => m - 1 \in Nat /\ m - 1 <= n
  OBVIOUS

(* More pages hold no fewer items. *)
LEMMA MorePages == \A m, n \in Nat : m <= n => m * PageSize <= n * PageSize
  <1> SUFFICES ASSUME NEW CONSTANT m \in Nat, NEW CONSTANT n \in Nat, m <= n
               PROVE  m * PageSize <= n * PageSize
    OBVIOUS
  <1>1. PICK d \in Nat : d = n - m
    OBVIOUS
  <1>2. PageSize \in Nat
    BY DiscoveryAssumption
  <1>3. n * PageSize = m * PageSize + d * PageSize
    <2>1. n = m + d
      BY <1>1
    <2> QED BY <1>2, <2>1
  <1>4. d * PageSize \in Nat /\ m * PageSize \in Nat
    BY <1>2
  <1> QED BY <1>3, <1>4

LEMMA LastPage ==
  ASSUME catalogue \in Seq(Nat), NEW n \in Nat, Upto(n), Len(catalogue) <= n * PageSize
  PROVE  Discovery!Listed \subseteq seen
  <1>1. \A i \in 1 .. Len(catalogue) : i <= n * PageSize
    BY DiscoveryAssumption
  <1> QED BY <1>1 DEF Upto, Discovery!Listed

Exhausted == {"empty-page", "no-more-pages", "empty-collection"}

Signals == Exhausted \cup {None, "repeated-page", "repeated-cursor", "safety-cap",
                           "max-items-reached", "expected-count-reached"}

(* An honest provider that is asked for all it has. *)
Asked == provider.honest /\ limit = None

Counters ==
  /\ catalogue \in Seq(Nat)
  /\ number \in 1 .. MaxPages + 1 /\ pages \in Nat
  /\ pc \in {"account", "request", "collect", "advance", "result", "finalize", "done"}
  /\ expected \in Nat \cup {None}
  /\ provider.cursors \in BOOLEAN /\ provider.counted \in BOOLEAN
  /\ loop = "soundcloud-tracks" => provider.cursors
  /\ pages = 0 => seen = {}
  /\ pc = "account" => pages = 0
  /\ pc \in {"collect", "advance"} => pages # 0
  /\ pc = "advance" => loop \in {"suno-list", "soundcloud-tracks"}
  /\ pc = "collect" => ItemsOf(payload.items) \subseteq Nat

(* The number of the page that is asked for next, and of the last response. *)
Numbers ==
  loop \in {"suno-list", "soundcloud-tracks"} =>
    /\ pc \in {"account", "request"} => number = pages + 1
    /\ loop = "suno-list" /\ pc = "request" => number <= MaxPages
    /\ pc = "collect" => number = pages /\ pages <= MaxPages
    /\ loop = "suno-list" /\ pc = "advance" => number = pages + 1
    /\ loop = "soundcloud-tracks" /\ pc = "advance" => number = pages /\ pages <= MaxPages

(* What was counted is a set that holds all that is seen and is left. *)
Within(E) ==
  /\ IsFiniteSet(E) /\ Cardinality(E) <= expected
  /\ seen \subseteq E /\ Discovery!Listed \subseteq E
  /\ pc = "collect" => ItemsOf(payload.items) \subseteq E

CountKnown == expected # None => \E E : Within(E)

Covered ==
  removed = {} =>
    /\ pc \in {"account", "request", "collect"} => Upto(number - 1)
    /\ pc = "collect" => payload = Discovery!HonestPage(number)
    /\ pc = "advance" => Upto(pages) /\ payload = Discovery!HonestPage(pages)
    /\ result.signal \in Exhausted => Discovery!Listed \subseteq seen

Verdict ==
  /\ result \in [signal: Signals, complete: BOOLEAN]
  /\ pc \notin {"result", "finalize", "done"} => result.signal = None
  /\ result.signal # "max-items-reached"
  /\ result.signal = "expected-count-reached" => expected # None
  /\ result.complete => pc \in {"finalize", "done"} /\ Discovery!Complete(result.signal)

DiscoveryInv == Asked => Counters /\ Numbers /\ CountKnown /\ Covered /\ Verdict

LEMMA SameCount == \A S : Discovery!Cardinality(S) = Cardinality(S)
  BY DEF Discovery!Cardinality, Cardinality

(* A catalogue lists no more items than it is long. *)
LEMMA ListedCount ==
  ASSUME catalogue \in Seq(Nat)
  PROVE  IsFiniteSet(Discovery!Listed) /\ Cardinality(Discovery!Listed) <= Len(catalogue)
  <1>1. PICK n \in Nat : n = Len(catalogue) /\ DOMAIN catalogue = 1 .. n
    OBVIOUS
  <1>2. catalogue \in Surjection(1 .. n, Discovery!Listed)
    BY <1>1 DEF Surjection, Discovery!Listed
  <1>3. IsFiniteSet(1 .. n) /\ Cardinality(1 .. n) = n
    BY FS_Interval
  <1>4. IsFiniteSet(Discovery!Listed) /\ Cardinality(Discovery!Listed) <= Cardinality(1 .. n)
    BY <1>2, <1>3, FS_Surjection
  <1> QED BY <1>1, <1>3, <1>4

LEMMA DiscoveryInit == Init => DiscoveryInv
  <1> SUFFICES ASSUME Init, Asked PROVE Counters /\ Numbers /\ CountKnown /\ Covered /\ Verdict
    BY DEF DiscoveryInv
  <1>1. Discovery!Init
    BY DEF Init
  <1>2. PICK n : catalogue = [i \in 1 .. n |-> i] /\ n \in 0 .. Discovery!Cardinality(Items)
    BY <1>1 DEF Discovery!Init, Asked
  <1>3. catalogue \in Seq(Nat) /\ number = 1 /\ pages = 0 /\ seen = {} /\ expected = None
    BY <1>1, <1>2 DEF Discovery!Init
  <1>4. provider \in [honest: BOOLEAN, counted: BOOLEAN, cursors: BOOLEAN, numbered: BOOLEAN]
    BY <1>1 DEF Discovery!Init, Discovery!Providers
  <1>5. loop = "soundcloud-tracks" => provider.cursors
    BY <1>1 DEF Discovery!Init, Discovery!Providers, Discovery!SoundCloudTracks, Asked
  <1>6. Counters
    BY <1>1, <1>3, <1>4, <1>5, DiscoveryAssumption DEF Counters, Discovery!Init
  <1>7. Numbers
    BY <1>1, <1>3, DiscoveryAssumption DEF Numbers, Discovery!Init
  <1>8. result.signal = None /\ result.complete = FALSE
    BY <1>1 DEF Discovery!Init
  <1>9. pc \in {"account", "request"}
    BY <1>1 DEF Discovery!Init
  <1>10. None \notin Exhausted /\ None # "max-items-reached" /\ None # "expected-count-reached"
    BY NoneAssumption DEF Exhausted
  <1>11. Covered
    <2>1. Upto(number - 1)
      BY <1>3, DiscoveryAssumption DEF Upto
    <2> QED BY <1>8, <1>9, <1>10, <2>1 DEF Covered
  <1>12. Verdict
    <2>1. result \in [signal: Signals, complete: BOOLEAN]
      BY <1>1 DEF Discovery!Init, Signals
    <2> QED BY <1>8, <1>9, <1>10, <2>1 DEF Verdict
  <1> QED BY <1>3, <1>6, <1>7, <1>11, <1>12 DEF CountKnown

(* What a collected page does to what was seen. *)
LEMMA Collected ==
  ASSUME DiscoveryInv, Asked, pc = "collect", UNCHANGED <<catalogue, removed, expected>>,
         seen' = seen \cup ItemsOf(payload.items)
  PROVE  /\ removed = {} => \A n \in Nat : n = number => Upto(n)'
         /\ removed = {} /\ payload.items = <<>> => (Discovery!Listed \subseteq seen)'
  <1> SUFFICES ASSUME removed = {}
               PROVE  /\ \A n \in Nat : n = number => Upto(n)'
                      /\ payload.items = <<>> => (Discovery!Listed \subseteq seen)'
    BY Zenon
  <1>1. /\ catalogue \in Seq(Nat) /\ number \in Nat \ {0} /\ Upto(number - 1)
        /\ payload.items = Discovery!From(number)
    BY DiscoveryAssumption DEF DiscoveryInv, Counters, Covered, Discovery!HonestPage
  <1>2. \A n \in Nat : n = number => Upto(n)'
    <2> SUFFICES ASSUME NEW CONSTANT n \in Nat, n = number PROVE Upto(n)'
      OBVIOUS
    <2> QED BY <1>1, OnePageMore
  <1>3. ASSUME payload.items = <<>> PROVE (Discovery!Listed \subseteq seen)'
    <2>1. Len(catalogue) <= (number - 1) * PageSize
      BY <1>1, <1>3, PageItems
    <2>2. Discovery!Listed \subseteq seen
      BY <1>1, <2>1, LastPage
    <2> QED BY <2>2 DEF Discovery!Listed
  <1> QED BY <1>2, <1>3

(* A step that asks for nothing keeps what was counted. *)
LEMMA KeepsCount ==
  ASSUME DiscoveryInv, Asked, UNCHANGED <<catalogue, expected>>, pc' # "collect",
         \/ seen' = seen
         \/ pc = "collect" /\ seen' = seen \cup ItemsOf(payload.items)
  PROVE  CountKnown'
  <1> SUFFICES ASSUME expected # None PROVE \E E : Within(E)'
    BY DEF CountKnown
  <1>1. PICK E : Within(E)
    BY DEF DiscoveryInv, CountKnown
  <1>2. Within(E)'
    BY <1>1 DEF Within, Discovery!Listed
  <1> QED BY <1>2

(* What every lemma below starts from. *)
LEMMA Facts ==
  ASSUME DiscoveryInv, Asked
  PROVE  /\ Counters /\ Numbers /\ CountKnown /\ Covered /\ Verdict
         /\ MaxPages \in Nat \ {0} /\ number \in Nat \ {0} /\ pages \in Nat
  BY DiscoveryAssumption DEF DiscoveryInv, Counters

LEMMA AccountStep == DiscoveryInv /\ Discovery!Account => DiscoveryInv'
  <1> SUFFICES ASSUME DiscoveryInv, Discovery!Account, Asked
               PROVE  (Counters /\ Numbers /\ CountKnown /\ Covered /\ Verdict)'
    BY DEF Discovery!Account, Discovery!source, DiscoveryInv, Asked
  <1>1. /\ pc = "account" /\ pc' = "request"
        /\ UNCHANGED <<loop, provider, limit, catalogue, removed, number, payload, seen, pages,
                       result>>
        /\ expected' = IF provider.counted THEN Len(catalogue) ELSE None
    BY DEF Discovery!Account, Discovery!source, Discovery!world, Discovery!Answers,
           Discovery!HonestPage, Asked
  <1>2. Counters'
    BY <1>1, Facts DEF Counters
  <1>3. Numbers'
    BY <1>1, Facts DEF Numbers, Counters
  <1>4. CountKnown'
    <2> SUFFICES ASSUME expected' # None PROVE Within(Discovery!Listed)'
      BY DEF CountKnown
    <2>1. expected' = Len(catalogue) /\ seen = {} /\ catalogue \in Seq(Nat)
      BY <1>1, Facts DEF Counters
    <2>2. Discovery!Listed' = Discovery!Listed
      BY <1>1 DEF Discovery!Listed
    <2> QED BY <1>1, <2>1, <2>2, ListedCount DEF Within
  <1>5. Covered'
    BY <1>1, Facts DEF Covered, Upto, Discovery!Listed
  <1>6. Verdict'
    BY <1>1, Facts, NoneAssumption DEF Verdict
  <1> QED BY <1>2, <1>3, <1>4, <1>5, <1>6

LEMMA RequestStep == DiscoveryInv /\ Discovery!Request => DiscoveryInv'
  <1> SUFFICES ASSUME DiscoveryInv, Discovery!Request, Asked
               PROVE  (Counters /\ Numbers /\ CountKnown /\ Covered /\ Verdict)'
    BY DEF Discovery!Request, Discovery!source, DiscoveryInv, Asked
  <1>1. /\ pc = "request" /\ pc' = "collect" /\ payload' = Discovery!HonestPage(number)
        /\ UNCHANGED <<loop, provider, limit, catalogue, removed, number, seen, result>>
        /\ expected' = IF pages = 0 /\ loop # "soundcloud-tracks"
                         THEN IF provider.counted THEN Len(catalogue) ELSE None
                         ELSE expected
        /\ loop = "soundcloud-tracks" => number <= MaxPages
        /\ pages' = Discovery!Cap(pages + 1)
    BY DEF Discovery!Request, Discovery!source, Discovery!world, Discovery!Answers,
           Discovery!HonestPage, Discovery!SoundCloudTracks, Asked
  <1>2. pages' \in Nat \ {0} /\ (pages + 1 <= MaxPages => pages' = pages + 1)
    BY <1>1, Facts DEF Discovery!Cap
  <1>5. ItemsOf(payload'.items) \subseteq Discovery!Listed
    <2>1. payload'.items = Discovery!From(number)
      BY <1>1 DEF Discovery!HonestPage
    <2> QED BY <2>1, Facts, PageItems DEF Counters
  <1>3. Counters'
    <2>1. ItemsOf(payload'.items) \subseteq Nat
      BY <1>5, Facts DEF Counters, Discovery!Listed
    <2>2. ItemsOf(payload.items)' = ItemsOf(payload'.items)
      BY DEF ItemsOf
    <2> QED BY <1>1, <1>2, <2>1, <2>2, Facts DEF Counters
  <1>4. Numbers'
    BY <1>1, <1>2, Facts DEF Numbers
  <1>6. Discovery!Listed' = Discovery!Listed
    BY <1>1 DEF Discovery!Listed
  <1>7. CountKnown'
    <2> SUFFICES ASSUME expected' # None PROVE \E E : Within(E)'
      BY DEF CountKnown
    <2>1. CASE pages = 0 /\ loop # "soundcloud-tracks"
      <3>1. expected' = Len(catalogue) /\ seen = {} /\ catalogue \in Seq(Nat)
        BY <1>1, <2>1, Facts DEF Counters
      <3>2. Within(Discovery!Listed)'
        BY <1>1, <1>5, <1>6, <3>1, ListedCount DEF Within
      <3> QED BY <3>2
    <2>2. CASE ~(pages = 0 /\ loop # "soundcloud-tracks")
      <3>1. expected' = expected
        BY <1>1, <2>2
      <3>2. PICK E : Within(E)
        BY <3>1, Facts DEF CountKnown
      <3>3. Within(E)'
        BY <1>1, <1>5, <1>6, <3>1, <3>2 DEF Within
      <3> QED BY <3>3
    <2> QED BY <2>1, <2>2
  <1>8. Covered'
    <2>1. Discovery!HonestPage(number)' = Discovery!HonestPage(number)
      BY <1>1 DEF Discovery!HonestPage, Discovery!From
    <2>2. removed = {} => Upto(number - 1)'
      BY <1>1, Facts DEF Covered, Upto
    <2> QED BY <1>1, <1>6, <2>1, <2>2, Facts DEF Covered
  <1>9. Verdict'
    BY <1>1, Facts, NoneAssumption DEF Verdict
  <1> QED BY <1>3, <1>4, <1>7, <1>8, <1>9

(* A loop that ends without collecting: a failed request, a cap. *)
LEMMA GivesUp ==
  ASSUME DiscoveryInv, Asked, pc' \in {"result", "finalize"},
         UNCHANGED <<loop, provider, limit, catalogue, removed, number, payload, seen, pages,
                     expected>>,
         \/ result' = result /\ pc \in {"account", "request"}
         \/ /\ result' = [result EXCEPT !.signal = "safety-cap"]
            /\ pc \in {"request", "advance"}
  PROVE  (Counters /\ Numbers /\ CountKnown /\ Covered /\ Verdict)'
  <1>1. Counters' /\ Numbers'
    BY Facts DEF Counters, Numbers
  <1>2. CountKnown'
    BY KeepsCount
  <1>3. result.signal = None /\ result.complete = FALSE
    BY Facts DEF Verdict
  <1>4. result'.signal \in {None, "safety-cap"} /\ result'.complete = FALSE
    BY <1>3, Facts DEF Verdict
  <1>5. Covered'
    BY <1>4, NoneAssumption DEF Covered, Exhausted
  <1>6. result' \in [signal: Signals, complete: BOOLEAN]
    BY Facts DEF Verdict, Signals
  <1>7. Verdict'
    BY <1>4, <1>6, NoneAssumption DEF Verdict
  <1> QED BY <1>1, <1>2, <1>5, <1>7

LEMMA DiscoveryStays ==
  ASSUME DiscoveryInv, Asked,
         UNCHANGED <<loop, provider, limit, catalogue, removed, number, payload, seen, pages,
                     expected, pc, result>>
  PROVE  (Counters /\ Numbers /\ CountKnown /\ Covered /\ Verdict)'
  <1>1. Counters' /\ Numbers' /\ Verdict'
    BY Facts DEF Counters, Numbers, Verdict, Discovery!Complete
  <1>2. CountKnown'
    <2> SUFFICES ASSUME expected # None PROVE \E E : Within(E)'
      BY DEF CountKnown
    <2>1. PICK E : Within(E)
      BY Facts DEF CountKnown
    <2>2. Within(E)'
      BY <2>1 DEF Within, Discovery!Listed
    <2> QED BY <2>2
  <1>3. Covered'
    <2>1. /\ Discovery!HonestPage(number)' = Discovery!HonestPage(number)
          /\ Discovery!HonestPage(pages)' = Discovery!HonestPage(pages)
      BY DEF Discovery!HonestPage, Discovery!From
    <2>2. /\ Upto(number - 1)' <=> Upto(number - 1)
          /\ Upto(pages)' <=> Upto(pages)
      BY DEF Upto
    <2>3. Discovery!Listed' = Discovery!Listed
      BY DEF Discovery!Listed
    <2> QED BY <2>1, <2>2, <2>3, Facts DEF Covered
  <1> QED BY <1>1, <1>2, <1>3

LEMMA FailureStep ==
  DiscoveryInv /\ (Discovery!RequestFails \/ Discovery!DistroKidFails \/ Discovery!SafetyCap)
    => DiscoveryInv'
  <1> SUFFICES ASSUME DiscoveryInv, Asked,
                      Discovery!RequestFails \/ Discovery!DistroKidFails \/ Discovery!SafetyCap
               PROVE  (Counters /\ Numbers /\ CountKnown /\ Covered /\ Verdict)'
    BY DEF Discovery!RequestFails, Discovery!DistroKidFails, Discovery!SafetyCap,
           Discovery!source, DiscoveryInv, Asked
  <1>1. UNCHANGED <<loop, provider, limit, catalogue, removed, number, payload, seen, pages,
                    expected>>
    BY DEF Discovery!RequestFails, Discovery!DistroKidFails, Discovery!SafetyCap,
           Discovery!source, Discovery!world, Discovery!found
  <1>2. \/ pc' \in {"result", "finalize"} /\ result' = result /\ pc \in {"account", "request"}
        \/ /\ pc' = "result" /\ result' = [result EXCEPT !.signal = "safety-cap"]
           /\ pc \in {"request", "advance"}
        \/ UNCHANGED <<pc, result>>
    BY DEF Discovery!RequestFails, Discovery!AfterFailure, Discovery!DistroKidFails,
           Discovery!SafetyCap
  <1>3. CASE pc' \in {"result", "finalize"}
    <2>1. CASE UNCHANGED <<pc, result>>
      BY <1>1, <2>1, DiscoveryStays
    <2> QED BY <1>1, <1>2, <1>3, <2>1, GivesUp
  <1>4. CASE UNCHANGED <<pc, result>>
    BY <1>1, <1>4, DiscoveryStays
  <1> QED BY <1>2, <1>3, <1>4

(* Without a limit all that is new is taken. *)
LEMMA AllTaken ==
  ASSUME DiscoveryInv, Asked, pc = "collect"
  PROVE  /\ Discovery!Taken = Discovery!Fresh
         /\ Discovery!Remember(seen, Discovery!Fresh) = seen \cup ItemsOf(payload.items)
         /\ ~Discovery!Limited(Discovery!Taken)
  <1>1. Discovery!Taken = Discovery!Fresh /\ ~Discovery!Limited(Discovery!Taken)
    BY DEF Asked, Discovery!Taken, Discovery!Limited
  <1>2. Another \notin ItemsOf(payload.items) /\ None \notin ItemsOf(payload.items)
    BY Facts, AnotherAssumption, NoneAssumption DEF Counters
  <1>3. Discovery!Fresh = ItemsOf(payload.items) \ seen
    BY DEF Discovery!Fresh, ItemsOf
  <1>4. Discovery!Remember(seen, Discovery!Fresh) = seen \cup ItemsOf(payload.items)
    BY <1>2, <1>3 DEF Discovery!Remember
  <1> QED BY <1>1, <1>4

(* A loop that ends with a signal, or goes on, after a page was collected. *)
LEMMA VerdictAfter ==
  ASSUME DiscoveryInv, Asked, pc \in {"collect", "advance"}, expected' = expected,
         \/ UNCHANGED result
         \/ /\ result' = [result EXCEPT !.signal = "expected-count-reached"]
            /\ expected # None /\ pc' = "result"
         \/ /\ pc' = "result"
            /\ \E s \in Exhausted \cup {"repeated-page", "repeated-cursor"} :
                 result' = [result EXCEPT !.signal = s]
  PROVE  Verdict' /\ result' \in [signal: Signals, complete: BOOLEAN]
  <1>1. /\ result.signal = None /\ result.complete = FALSE
        /\ result \in [signal: Signals, complete: BOOLEAN]
    BY Facts DEF Verdict
  <1>2. /\ result' \in [signal: Signals, complete: BOOLEAN] /\ result'.complete = FALSE
        /\ result'.signal # "max-items-reached"
    BY <1>1, NoneAssumption DEF Signals, Exhausted
  <1>3. pc' \notin {"result", "finalize", "done"} => result'.signal = None
    BY <1>1
  <1>4. result'.signal = "expected-count-reached" => expected # None
    BY <1>1, NoneAssumption DEF Exhausted
  <1> QED BY <1>2, <1>3, <1>4 DEF Verdict

LEMMA SunoCollectStep == DiscoveryInv /\ Discovery!SunoCollect => DiscoveryInv'
  <1> SUFFICES ASSUME DiscoveryInv, Discovery!SunoCollect, Asked
               PROVE  (Counters /\ Numbers /\ CountKnown /\ Covered /\ Verdict)'
    BY DEF Discovery!SunoCollect, Discovery!source, DiscoveryInv, Asked
  <1>1. /\ pc = "collect" /\ loop = "suno-list"
        /\ UNCHANGED <<loop, provider, limit, catalogue, removed, payload, pages, expected>>
        /\ seen' = seen \cup ItemsOf(payload.items)
        /\ number' = Discovery!Cap(pages + 1)
    BY AllTaken DEF Discovery!SunoCollect, Discovery!source, Discovery!world, Discovery!SunoList
  <1>2. \/ /\ payload.items = <<>> /\ pc' = "result"
           /\ result' = [result EXCEPT !.signal = "empty-page"]
        \/ pc' = "result" /\ result' = [result EXCEPT !.signal = "repeated-page"]
        \/ /\ expected # None /\ pc' = "result"
           /\ result' = [result EXCEPT !.signal = "expected-count-reached"]
        \/ pc' = "advance" /\ UNCHANGED result
    BY AllTaken DEF Discovery!SunoCollect, Discovery!Ends, Discovery!Goes, Discovery!Counted
  <1>3. number = pages /\ pages <= MaxPages /\ number' = pages + 1
    BY <1>1, Facts DEF Numbers, Discovery!Cap
  <1>4. pc' \in {"result", "advance"}
    BY <1>2
  <1>5. Counters'
    BY <1>1, <1>3, <1>4, Facts DEF Counters
  <1>6. Numbers'
    BY <1>1, <1>3, <1>4, Facts DEF Numbers
  <1>7. CountKnown'
    BY <1>1, <1>4, KeepsCount
  <1>8. Verdict'
    BY <1>1, <1>2, VerdictAfter DEF Exhausted
  <1>9. Covered'
    <2> SUFFICES ASSUME removed = {}
                 PROVE  /\ pc' = "advance" =>
                             Upto(pages)' /\ payload' = Discovery!HonestPage(pages)'
                        /\ result'.signal \in Exhausted => (Discovery!Listed \subseteq seen)'
      BY <1>1, <1>4 DEF Covered
    <2>1. Upto(pages)'
      <3>1. \A n \in Nat : n = number => Upto(n)'
        BY <1>1, Collected
      <3>2. Upto(pages)' <=> \A i \in 1 .. Len(catalogue) : i <= pages * PageSize =>
              catalogue[i] \in seen'
        BY <1>1 DEF Upto
      <3>3. \A n \in Nat : Upto(n)' =>
              \A i \in 1 .. Len(catalogue) : i <= n * PageSize => catalogue[i] \in seen'
        BY <1>1 DEF Upto
      <3> QED BY <1>3, <3>1, <3>2, <3>3, Facts
    <2>2. payload' = Discovery!HonestPage(pages)'
      BY <1>1, <1>3, Facts DEF Covered, Discovery!HonestPage, Discovery!From
    <2>3. ASSUME result'.signal \in Exhausted PROVE (Discovery!Listed \subseteq seen)'
      <3>1. payload.items = <<>>
        BY <1>2, <2>3, Facts, NoneAssumption, <1>1 DEF Verdict, Exhausted
      <3> QED BY <1>1, <3>1, Collected
    <2> QED BY <2>1, <2>2, <2>3
  <1> QED BY <1>5, <1>6, <1>7, <1>8, <1>9

LEMMA SunoAdvanceStep == DiscoveryInv /\ Discovery!SunoAdvance => DiscoveryInv'
  <1> SUFFICES ASSUME DiscoveryInv, Discovery!SunoAdvance, Asked
               PROVE  (Counters /\ Numbers /\ CountKnown /\ Covered /\ Verdict)'
    BY DEF Discovery!SunoAdvance, Discovery!source, DiscoveryInv, Asked
  <1>1. /\ pc = "advance" /\ loop = "suno-list" /\ number <= MaxPages
        /\ UNCHANGED <<loop, provider, limit, catalogue, removed, payload, pages, expected,
                       seen, number>>
    BY DEF Discovery!SunoAdvance, Discovery!source, Discovery!world, Discovery!SunoList
  <1>2. \/ /\ ~payload.more /\ pc' = "result"
           /\ result' = [result EXCEPT !.signal = "no-more-pages"]
        \/ pc' = "result" /\ result' = [result EXCEPT !.signal = "repeated-cursor"]
        \/ pc' = "request" /\ UNCHANGED result
    BY DEF Discovery!SunoAdvance, Discovery!Ends, Discovery!Goes
  <1>3. number = pages + 1
    BY <1>1, Facts DEF Numbers
  <1>4. pc' \in {"result", "request"}
    BY <1>2
  <1>5. Counters'
    BY <1>1, <1>4, Facts DEF Counters
  <1>6. Numbers'
    BY <1>1, <1>3, <1>4, Facts DEF Numbers
  <1>7. CountKnown'
    BY <1>1, <1>4, KeepsCount
  <1>8. Verdict'
    BY <1>1, <1>2, VerdictAfter DEF Exhausted
  <1>9. Covered'
    <2> SUFFICES ASSUME removed = {}
                 PROVE  /\ Upto(number - 1)'
                        /\ result'.signal \in Exhausted => (Discovery!Listed \subseteq seen)'
      BY <1>1, <1>4 DEF Covered
    <2>1. Upto(pages) /\ payload = Discovery!HonestPage(pages)
      BY <1>1, Facts DEF Covered
    <2>2. Upto(number - 1)'
      <3>1. pages = number - 1
        BY <1>3, Facts
      <3> QED BY <1>1, <2>1, <3>1 DEF Upto
    <2>3. ASSUME result'.signal \in Exhausted PROVE (Discovery!Listed \subseteq seen)'
      <3>1. ~payload.more
        BY <1>2, <2>3, Facts, NoneAssumption, <1>1 DEF Verdict, Exhausted
      <3>2. payload.more = (pages * PageSize < Len(catalogue))
        BY <2>1, Zenon DEF Discovery!HonestPage
      <3>3. ~(pages * PageSize < Len(catalogue)) /\ catalogue \in Seq(Nat)
        BY <3>1, <3>2, Facts, Zenon DEF Counters
      <3>4. Len(catalogue) <= pages * PageSize
        BY <3>3, Facts, DiscoveryAssumption
      <3>5. Discovery!Listed \subseteq seen
        BY <2>1, <3>3, <3>4, Facts, LastPage
      <3> QED BY <1>1, <3>5 DEF Discovery!Listed
    <2> QED BY <2>2, <2>3
  <1> QED BY <1>5, <1>6, <1>7, <1>8, <1>9

LEMMA SoundCloudCollectStep == DiscoveryInv /\ Discovery!SoundCloudCollect => DiscoveryInv'
  <1> SUFFICES ASSUME DiscoveryInv, Discovery!SoundCloudCollect, Asked
               PROVE  (Counters /\ Numbers /\ CountKnown /\ Covered /\ Verdict)'
    BY DEF Discovery!SoundCloudCollect, Discovery!source, DiscoveryInv, Asked
  <1>1. /\ pc = "collect" /\ loop = "soundcloud-tracks"
        /\ UNCHANGED <<loop, provider, limit, catalogue, removed, payload, pages, expected,
                       number>>
        /\ seen' = seen \cup ItemsOf(payload.items)
    BY AllTaken DEF Discovery!SoundCloudCollect, Discovery!source, Discovery!world,
       Discovery!SoundCloudTracks
  <1>2. \/ /\ payload.items = <<>> /\ pc' = "result"
           /\ result' = [result EXCEPT !.signal = "empty-collection"]
        \/ pc' = "result" /\ result' = [result EXCEPT !.signal = "repeated-page"]
        \/ pc' = "advance" /\ UNCHANGED result
    BY AllTaken DEF Discovery!SoundCloudCollect, Discovery!Ends, Discovery!Goes
  <1>3. number = pages /\ pages <= MaxPages
    BY <1>1, Facts DEF Numbers
  <1>4. pc' \in {"result", "advance"}
    BY <1>2
  <1>5. Counters'
    BY <1>1, <1>3, <1>4, Facts DEF Counters
  <1>6. Numbers'
    BY <1>1, <1>3, <1>4, Facts DEF Numbers
  <1>7. CountKnown'
    BY <1>1, <1>4, KeepsCount
  <1>8. Verdict'
    BY <1>1, <1>2, VerdictAfter DEF Exhausted
  <1>9. Covered'
    <2> SUFFICES ASSUME removed = {}
                 PROVE  /\ Upto(pages)' /\ payload' = Discovery!HonestPage(pages)'
                        /\ result'.signal \in Exhausted => (Discovery!Listed \subseteq seen)'
      BY <1>1, <1>4 DEF Covered
    <2>1. Upto(pages)'
      <3>1. \A n \in Nat : n = number => Upto(n)'
        BY <1>1, Collected
      <3>2. Upto(pages)' <=>
              \A i \in 1 .. Len(catalogue) : i <= pages * PageSize => catalogue[i] \in seen'
        BY <1>1 DEF Upto
      <3>3. \A n \in Nat : Upto(n)' =>
              \A i \in 1 .. Len(catalogue) : i <= n * PageSize => catalogue[i] \in seen'
        BY <1>1 DEF Upto
      <3> QED BY <1>3, <3>1, <3>2, <3>3, Facts
    <2>2. payload' = Discovery!HonestPage(pages)'
      BY <1>1, <1>3, Facts DEF Covered, Discovery!HonestPage, Discovery!From
    <2>3. ASSUME result'.signal \in Exhausted PROVE (Discovery!Listed \subseteq seen)'
      <3>1. payload.items = <<>>
        BY <1>2, <2>3, Facts, NoneAssumption, <1>1 DEF Verdict, Exhausted
      <3> QED BY <1>1, <3>1, Collected
    <2> QED BY <2>1, <2>2, <2>3
  <1> QED BY <1>5, <1>6, <1>7, <1>8, <1>9

LEMMA SoundCloudAdvanceStep == DiscoveryInv /\ Discovery!SoundCloudAdvance => DiscoveryInv'
  <1> SUFFICES ASSUME DiscoveryInv, Discovery!SoundCloudAdvance, Asked
               PROVE  (Counters /\ Numbers /\ CountKnown /\ Covered /\ Verdict)'
    BY DEF Discovery!SoundCloudAdvance, Discovery!source, DiscoveryInv, Asked
  <1>1. /\ pc = "advance" /\ loop = "soundcloud-tracks"
        /\ UNCHANGED <<loop, provider, limit, catalogue, removed, payload, pages, expected, seen>>
        /\ number' = IF pc' = "request" THEN Discovery!Cap(number + 1) ELSE number
    BY DEF Discovery!SoundCloudAdvance, Discovery!source, Discovery!world,
           Discovery!SoundCloudTracks
  <1>2. \/ /\ payload.cursor = None /\ pc' = "result"
           /\ result' = [result EXCEPT !.signal = "no-more-pages"]
        \/ pc' = "result" /\ result' = [result EXCEPT !.signal = "repeated-cursor"]
        \/ /\ expected # None /\ pc' = "result"
           /\ result' = [result EXCEPT !.signal = "expected-count-reached"]
        \/ pc' = "request" /\ UNCHANGED result
    BY DEF Discovery!SoundCloudAdvance, Discovery!Ends, Discovery!Goes, Discovery!Href,
           Discovery!Counted
  <1>3. number = pages /\ pages <= MaxPages
    BY <1>1, Facts DEF Numbers
  <1>4. pc' \in {"result", "request"} /\ (pc' = "request" => number' = pages + 1)
    BY <1>1, <1>2, <1>3, Facts DEF Discovery!Cap
  <1>5. number' \in 1 .. MaxPages + 1
    BY <1>1, <1>3, <1>4, Facts
  <1>6. Counters'
    BY <1>1, <1>4, <1>5, Facts DEF Counters
  <1>7. Numbers'
    BY <1>1, <1>4, Facts DEF Numbers
  <1>8. CountKnown'
    BY <1>1, <1>4, KeepsCount
  <1>9. Verdict'
    BY <1>1, <1>2, VerdictAfter DEF Exhausted
  <1>10. Covered'
    <2> SUFFICES ASSUME removed = {}
                 PROVE  /\ pc' = "request" => Upto(number - 1)'
                        /\ result'.signal \in Exhausted => (Discovery!Listed \subseteq seen)'
      BY <1>1, <1>4 DEF Covered
    <2>1. Upto(pages) /\ payload = Discovery!HonestPage(pages)
      BY <1>1, Facts DEF Covered
    <2>2. ASSUME pc' = "request" PROVE Upto(number - 1)'
      <3>1. pages = number' - 1
        BY <1>4, <2>2, Facts
      <3> QED BY <1>1, <2>1, <3>1 DEF Upto
    <2>3. ASSUME result'.signal \in Exhausted PROVE (Discovery!Listed \subseteq seen)'
      <3>1. payload.cursor = None
        BY <1>2, <2>3, Facts, NoneAssumption, <1>1 DEF Verdict, Exhausted
      <3>2. payload.cursor = IF pages * PageSize < Len(catalogue) /\ provider.cursors
                               THEN pages + 1 ELSE None
        BY <2>1 DEF Discovery!HonestPage
      <3>3. provider.cursors /\ catalogue \in Seq(Nat)
        BY <1>1, Facts DEF Counters
      <3>4. ~(pages * PageSize < Len(catalogue))
        <4> SUFFICES ASSUME pages * PageSize < Len(catalogue) PROVE FALSE
          OBVIOUS
        <4>1. payload.cursor = pages + 1
          BY <3>2, <3>3, Zenon
        <4> QED BY <3>1, <4>1, Facts, NoneAssumption
      <3>5. Len(catalogue) <= pages * PageSize
        BY <3>3, <3>4, Facts, DiscoveryAssumption
      <3>6. Discovery!Listed \subseteq seen
        BY <2>1, <3>3, <3>5, Facts, LastPage
      <3> QED BY <1>1, <3>6 DEF Discovery!Listed
    <2> QED BY <2>2, <2>3
  <1> QED BY <1>6, <1>7, <1>8, <1>9, <1>10

(* The number of a project's page may stop at the bound: fewer pages are   *)
(* claimed then than were seen.                                            *)
LEMMA ProjectCollectStep == DiscoveryInv /\ Discovery!ProjectCollect => DiscoveryInv'
  <1> SUFFICES ASSUME DiscoveryInv, Discovery!ProjectCollect, Asked
               PROVE  (Counters /\ Numbers /\ CountKnown /\ Covered /\ Verdict)'
    BY DEF Discovery!ProjectCollect, Discovery!source, DiscoveryInv, Asked
  <1>1. /\ pc = "collect" /\ loop = "suno-project"
        /\ UNCHANGED <<loop, provider, limit, catalogue, removed, payload, pages, expected>>
    BY DEF Discovery!ProjectCollect, Discovery!source, Discovery!world, Discovery!SunoProject
  <1>2. \/ /\ pc' = "result" /\ result' = [result EXCEPT !.signal = "repeated-page"]
           /\ UNCHANGED <<seen, number>>
        \/ /\ seen' = seen \cup ItemsOf(payload.items) /\ number' = Discovery!Cap(number + 1)
           /\ \/ /\ payload.items = <<>> /\ pc' = "result"
                 /\ result' = [result EXCEPT !.signal = "empty-page"]
              \/ /\ expected # None /\ pc' = "result"
                 /\ result' = [result EXCEPT !.signal = "expected-count-reached"]
              \/ pc' = "request" /\ UNCHANGED result
    BY AllTaken DEF Discovery!ProjectCollect, Discovery!Ends, Discovery!Goes, Discovery!Counted
  <1>3. pc' \in {"result", "request"}
    BY <1>2
  <1>4. number \in 1 .. MaxPages + 1
    BY Facts DEF Counters
  <1>5. number' \in 1 .. MaxPages + 1 /\ number' <= number + 1
    BY <1>2, <1>4, Facts DEF Discovery!Cap
  <1>6. Counters'
    <2>1. pages # 0
      BY <1>1, Facts DEF Counters
    <2> QED BY <1>1, <1>3, <1>5, <2>1, Facts DEF Counters
  <1>7. Numbers'
    BY <1>1 DEF Numbers
  <1>8. CountKnown'
    BY <1>1, <1>2, <1>3, KeepsCount
  <1>9. Verdict'
    BY <1>1, <1>2, VerdictAfter DEF Exhausted
  <1>10. Covered'
    <2> SUFFICES ASSUME removed = {}
                 PROVE  /\ pc' = "request" => Upto(number - 1)'
                        /\ result'.signal \in Exhausted => (Discovery!Listed \subseteq seen)'
      BY <1>1, <1>3 DEF Covered
    <2>1. ASSUME pc' = "request" PROVE Upto(number - 1)'
      <3>1. seen' = seen \cup ItemsOf(payload.items)
        BY <1>2, <2>1
      <3>2. \A n \in Nat : n = number => Upto(n)'
        BY <1>1, <3>1, Collected
      <3>3. \A n \in Nat : Upto(n)' =>
              \A i \in 1 .. Len(catalogue) : i <= n * PageSize => catalogue[i] \in seen'
        BY <1>1 DEF Upto
      <3>4. \A i \in 1 .. Len(catalogue) : i <= number * PageSize => catalogue[i] \in seen'
        BY <3>2, <3>3, Facts
      <3>5. (number' - 1) * PageSize <= number * PageSize
        <4>1. number' - 1 \in Nat /\ number \in Nat /\ number' - 1 <= number
          <5>1. PICK m \in Nat : m = number' /\ 1 <= m
            <6>1. PICK c \in Nat : c = MaxPages + 1
              BY DiscoveryAssumption
            <6> QED BY <1>5, <6>1
          <5>2. PICK n \in Nat : n = number
            BY Facts
          <5>3. m <= n + 1
            BY <1>5, <5>1, <5>2
          <5> QED BY <5>1, <5>2, <5>3, PageBefore
        <4> QED BY <4>1, MorePages
      <3>6. (number' - 1) * PageSize \in Int /\ number * PageSize \in Int
        BY <1>5, DiscoveryAssumption, Facts
      <3>7. \A i \in 1 .. Len(catalogue) : i <= (number' - 1) * PageSize => catalogue[i] \in seen'
        BY <3>4, <3>5, <3>6
      <3> QED BY <1>1, <3>7 DEF Upto
    <2>2. ASSUME result'.signal \in Exhausted PROVE (Discovery!Listed \subseteq seen)'
      <3>1. payload.items = <<>> /\ seen' = seen \cup ItemsOf(payload.items)
        BY <1>2, <2>2, Facts, NoneAssumption, <1>1 DEF Verdict, Exhausted
      <3> QED BY <1>1, <3>1, Collected
    <2> QED BY <2>1, <2>2
  <1> QED BY <1>6, <1>7, <1>8, <1>9, <1>10

(* The verdict, which a finalized run keeps. *)
LEMMA VerdictStep ==
  DiscoveryInv /\ (Discovery!BuildResult \/ Discovery!Finalize) => DiscoveryInv'
  <1> SUFFICES ASSUME DiscoveryInv, Discovery!BuildResult \/ Discovery!Finalize, Asked
               PROVE  (Counters /\ Numbers /\ CountKnown /\ Covered /\ Verdict)'
    BY DEF Discovery!BuildResult, Discovery!Finalize, Discovery!source, DiscoveryInv, Asked
  <1>1. /\ UNCHANGED <<loop, provider, limit, catalogue, removed, number, payload, pages, expected,
                       seen>>
        /\ pc \in {"result", "finalize"} /\ pc' \in {"finalize", "done"}
    BY DEF Discovery!BuildResult, Discovery!Finalize, Discovery!source, Discovery!world,
       Discovery!found
  <1>2. Counters' /\ Numbers'
    BY <1>1, Facts DEF Counters, Numbers
  <1>3. CountKnown'
    BY <1>1, KeepsCount
  <1>4. /\ result' \in [signal: Signals, complete: BOOLEAN] /\ result'.signal = result.signal
        /\ result'.complete => Discovery!Complete(result.signal)
    <2>1. result \in [signal: Signals, complete: BOOLEAN]
      BY Facts DEF Verdict
    <2>2. CASE Discovery!BuildResult
      <3>1. result' = [result EXCEPT !.complete = Discovery!Complete(result.signal)]
        BY <2>2 DEF Discovery!BuildResult
      <3>2. Discovery!Complete(result.signal) \in BOOLEAN
        BY DEF Discovery!Complete
      <3>3. PICK c \in BOOLEAN : c = Discovery!Complete(result.signal)
        BY <3>2, Zenon
      <3>4. result' = [result EXCEPT !.complete = c]
        BY <3>1, <3>3, Zenon
      <3>5. /\ result' \in [signal: Signals, complete: BOOLEAN]
            /\ result'.signal = result.signal /\ result'.complete = c
        BY <2>1, <3>4
      <3> QED BY <3>3, <3>5, Zenon
    <2>3. CASE Discovery!Finalize
      BY <2>1, <2>3, Facts DEF Discovery!Finalize, Verdict
    <2> QED BY <2>2, <2>3
  <1>5. Covered'
    BY <1>1, <1>4, Facts DEF Covered, Discovery!Listed
  <1>6. Verdict'
    BY <1>1, <1>4, Facts DEF Verdict, Discovery!Complete
  <1> QED BY <1>2, <1>3, <1>5, <1>6

(* What a removal leaves was listed before. *)
LEMMA RemoveStep == DiscoveryInv /\ Discovery!Remove => DiscoveryInv'
  <1> SUFFICES ASSUME DiscoveryInv, Discovery!Remove, Asked
               PROVE  (Counters /\ Numbers /\ CountKnown /\ Covered /\ Verdict)'
    BY DEF Discovery!Remove, Discovery!source, DiscoveryInv, Asked
  <1>1. UNCHANGED <<loop, provider, limit, number, payload, pages, expected, seen, pc, result>>
    BY DEF Discovery!Remove, Discovery!source, Discovery!found
  <1>2. PICK i \in DOMAIN catalogue :
          /\ removed' = removed \cup {catalogue[i]}
          /\ catalogue' = SubSeq(catalogue, 1, i - 1) \o SubSeq(catalogue, i + 1, Len(catalogue))
    BY DEF Discovery!Remove
  <1>3. removed' # {}
    BY <1>2
  <1>4. catalogue \in Seq(Nat)
    BY Facts DEF Counters
  <1>5. PICK L \in Nat : L = Len(catalogue) /\ DOMAIN catalogue = 1 .. L /\ i \in 1 .. L
    <2>1. Len(catalogue) \in Nat /\ DOMAIN catalogue = 1 .. Len(catalogue)
      BY <1>4, LenProperties
    <2> QED BY <2>1, Zenon
  <1> DEFINE front == SubSeq(catalogue, 1, i - 1)
             back == SubSeq(catalogue, i + 1, L)
             Remaining == Discovery!Listed
  <1>6. \A j \in 1 .. L : catalogue[j] \in Remaining /\ catalogue[j] \in Nat
    BY <1>4, <1>5 DEF Discovery!Listed
  <1>7. Remaining \subseteq Nat
    BY <1>4 DEF Discovery!Listed
  <1> HIDE DEF Remaining
  <1>8. front \in Seq(Remaining) /\ back \in Seq(Remaining)
    <2>1. 1 \in Int /\ i - 1 \in Int /\ i + 1 \in Int /\ L \in Int
      BY <1>5
    <2>2. \A j \in 1 .. i - 1 : catalogue[j] \in Remaining
      BY <1>5, <1>6
    <2>3. \A j \in i + 1 .. L : catalogue[j] \in Remaining
      BY <1>5, <1>6
    <2> QED BY <2>1, <2>2, <2>3, SubSeqProperties
  <1>9. catalogue' \in Seq(Remaining)
    BY <1>2, <1>5, <1>8, ConcatProperties
  <1>10. catalogue' \in Seq(Nat)
    BY <1>7, <1>9, SeqMonotonic
  <1>11. Discovery!Listed' \subseteq Discovery!Listed
    BY <1>9 DEF Discovery!Listed, Remaining
  <1>12. Counters'
    BY <1>1, <1>10, Facts DEF Counters
  <1>13. Numbers'
    BY <1>1, Facts DEF Numbers
  <1>14. CountKnown'
    <2> SUFFICES ASSUME expected # None PROVE \E E : Within(E)'
      BY <1>1 DEF CountKnown
    <2>1. PICK E : Within(E)
      BY Facts DEF CountKnown
    <2>2. Within(E)'
      BY <1>1, <1>11, <2>1 DEF Within
    <2> QED BY <2>2
  <1>15. Covered'
    BY <1>3 DEF Covered
  <1>16. Verdict'
    BY <1>1, Facts DEF Verdict, Discovery!Complete
  <1> QED BY <1>12, <1>13, <1>14, <1>15, <1>16

LEMMA DiscoveryHolds == Spec => []DiscoveryInv
  <1>1. DiscoveryInv /\ [Next]_all => DiscoveryInv'
    <2> SUFFICES ASSUME DiscoveryInv, [Next]_all PROVE DiscoveryInv'
      OBVIOUS
    <2>1. CASE Discovery!Next
      BY <2>1, AccountStep, RequestStep, FailureStep, SunoCollectStep, SunoAdvanceStep,
         SoundCloudCollectStep, SoundCloudAdvanceStep, ProjectCollectStep, VerdictStep, RemoveStep
         DEF Discovery!Next, Discovery!Discover
    <2>2. CASE UNCHANGED discoveryVars
      <3> SUFFICES ASSUME Asked PROVE (Counters /\ Numbers /\ CountKnown /\ Covered /\ Verdict)'
        BY <2>2 DEF DiscoveryInv, Asked, discoveryVars
      <3> QED BY <2>2, DiscoveryStays DEF discoveryVars
    <2> QED BY <2>1, <2>2 DEF Next, all
  <1> QED BY <1>1, DiscoveryInit, PTL DEF Spec

(* A discovery that calls itself complete has found every source that is   *)
(* still listed, for every catalogue, page size and safety cap: with a     *)
(* count because as many were seen as were counted, without one because    *)
(* the loop ended at the last page.                                        *)
THEOREM CompleteDiscoveriesFindAll == Spec => []CompleteMeansAll
  <1>1. DiscoveryInv => Discovery!CompleteMeansAll
    <2> SUFFICES ASSUME DiscoveryInv, result.complete, Asked,
                        expected # None \/ (removed = {} /\ loop # "suno-project")
                 PROVE  Discovery!Listed \subseteq seen
      BY DEF Discovery!CompleteMeansAll, Asked, Discovery!SunoProject
    <2>1. /\ loop # "suno-project" =>
               result.signal \notin {None, "repeated-page", "repeated-cursor", "safety-cap"}
          /\ expected # None => Cardinality(seen) >= expected
      BY Facts, SameCount DEF Verdict, Discovery!Complete, Discovery!SunoProject
    <2>2. CASE expected # None
      <3>1. PICK E : Within(E)
        BY <2>2, Facts DEF CountKnown
      <3>2. IsFiniteSet(E) /\ seen \subseteq E /\ Cardinality(E) <= expected
              /\ Discovery!Listed \subseteq E
        BY <3>1 DEF Within
      <3>3. /\ IsFiniteSet(seen) /\ Cardinality(seen) <= Cardinality(E)
            /\ Cardinality(E) = Cardinality(seen) => E = seen
        BY <3>2, FS_Subset
      <3>4. Cardinality(seen) \in Nat /\ Cardinality(E) \in Nat
        BY <3>2, <3>3, FS_CardinalityType
      <3>5. expected \in Nat
        BY <2>2, Facts DEF Counters
      <3>6. Cardinality(E) = Cardinality(seen)
        BY <2>1, <2>2, <3>2, <3>3, <3>4, <3>5
      <3> QED BY <3>2, <3>3, <3>6
    <2>3. CASE expected = None
      <3>1. result.signal \in Exhausted
        BY <2>1, <2>3, Facts DEF Verdict, Signals
      <3> QED BY <2>3, <3>1, Facts DEF Covered
    <2> QED BY <2>2, <2>3
  <1> QED BY <1>1, DiscoveryHolds, PTL DEF CompleteMeansAll
=============================================================================
