--------------------------- MODULE BrowserSession ---------------------------
(***************************************************************************)
(* A capture or an authentication check through the dedicated Chrome       *)
(* profile, plugins/chatgpt/strategies/browser.py and its DistroKid twin:  *)
(* refuse a profile in use, launch Chrome, wait for the port it publishes  *)
(* in the profile, read the page, shut Chrome down and remove the port     *)
(* file.  An authentication opens a Chrome for the user first.  Two        *)
(* commands may use one profile at a time; Chromes are numbered in the     *)
(* order of their launch, and the file holds the number of one.            *)
(***************************************************************************)
EXTENDS Naturals

CONSTANTS
  Sessions,   \* commands of mindcap that use the profile
  MaxEvents,  \* bound: crashes of Chrome and kills of a command
  NoChrome

VARIABLES
  stage,      \* where each command is
  chrome,     \* process: the Chrome each command launched
  previous,   \* previous_content
  atLaunch,   \* the port file when Chrome was launched: older than launch_time
  endpoint,   \* the Chrome each command is connected to
  starting,   \* Chromes launched that have not taken the profile yet
  owner,      \* the Chrome that has the profile
  portFile,   \* DevToolsActivePort
  announced,  \* Chromes that have published their port, or have none
  launched,   \* Chromes launched so far
  known,      \* Chromes launched before a command looked at the profile
  events

browserVars ==
  <<stage, chrome, previous, atLaunch, endpoint, starting, owner, portFile, announced,
    launched, known, events>>

(* Chrome 1 is an earlier one: gone, with its port file left, or in use. *)
Init ==
  /\ stage \in [Sessions -> {"check", "login"}]
  /\ chrome = [s \in Sessions |-> NoChrome]
  /\ previous = [s \in Sessions |-> NoChrome]
  /\ atLaunch = [s \in Sessions |-> NoChrome]
  /\ endpoint = [s \in Sessions |-> NoChrome]
  /\ starting = {}
  /\ owner \in {NoChrome, 1} /\ portFile \in {NoChrome, 1}
  /\ announced = {1}
  /\ launched = 1
  /\ known = [s \in Sessions |-> {}]
  /\ events = 0

Alive == starting \cup ({owner} \ {NoChrome})

At(s, st) == stage[s] = st

Go(s, st) == stage' = [stage EXCEPT ![s] = st]

Chromes == <<starting, owner, announced, launched>>
Remembered == <<previous, atLaunch, known>>

(* authenticate: a Chrome of the user's, without a debugging port.  The    *)
(* lock file Chrome keeps in its profile is a dangling link on Linux, which*)
(* does not exist for _check_profile_lock.                                 *)
OpenForUser(s) ==
  /\ At(s, "login")
  /\ launched' = launched + 1
  /\ starting' = starting \cup {launched'}
  /\ announced' = announced \cup {launched'}
  /\ Go(s, "signing in")
  /\ UNCHANGED <<chrome, Remembered, endpoint, owner, portFile, events>>

(* The user presses Enter, whether Chrome was quit or not. *)
SignedIn(s) ==
  /\ At(s, "signing in")
  /\ Go(s, "check")
  /\ UNCHANGED <<chrome, Remembered, endpoint, Chromes, portFile, events>>

(* _is_dedicated_chrome_running: the process list. *)
Check(s) ==
  /\ At(s, "check")
  /\ known' = [known EXCEPT ![s] = 1 .. launched]
  /\ Go(s, IF Alive # {} THEN "refused" ELSE "read")
  /\ UNCHANGED <<chrome, previous, atLaunch, endpoint, Chromes, portFile, events>>

ReadPrevious(s) ==
  /\ At(s, "read")
  /\ previous' = [previous EXCEPT ![s] = portFile]
  /\ Go(s, "launch")
  /\ UNCHANGED <<chrome, atLaunch, known, endpoint, Chromes, portFile, events>>

Launch(s) ==
  /\ At(s, "launch")
  /\ launched' = launched + 1
  /\ chrome' = [chrome EXCEPT ![s] = launched']
  /\ starting' = starting \cup {launched'}
  /\ atLaunch' = [atLaunch EXCEPT ![s] = portFile]
  /\ Go(s, "wait")
  /\ UNCHANGED <<previous, known, endpoint, owner, announced, portFile, events>>

(* Mutant: any port that answers is taken. *)
FreshAny(s) == portFile # NoChrome

(* Modified since the launch, and not the content read before it. *)
Fresh(s) == portFile # NoChrome /\ portFile # previous[s] /\ portFile # atLaunch[s]

(* _wait_for_fresh_cdp_port: the process still runs, and something answers *)
(* at the port: the profile's owner, or, where the Chrome that published   *)
(* it is gone, a program that was given its port since.                    *)
Connect(s) ==
  /\ At(s, "wait")
  /\ chrome[s] \in Alive
  /\ Fresh(s)
  /\ portFile = owner \/ portFile \notin Alive
  /\ endpoint' = [endpoint EXCEPT ![s] = portFile]
  /\ Go(s, "connected")
  /\ UNCHANGED <<chrome, Remembered, Chromes, portFile, events>>

(* Chrome exited, or the time is over. *)
WaitFails(s) ==
  /\ At(s, "wait")
  /\ Go(s, "shutdown")
  /\ UNCHANGED <<chrome, Remembered, endpoint, Chromes, portFile, events>>

(* The page is read, or the connection breaks: both end in the finally. *)
PageEnds(s) ==
  /\ At(s, "connected")
  /\ Go(s, "shutdown")
  /\ UNCHANGED <<chrome, Remembered, endpoint, Chromes, portFile, events>>

Dies(c) ==
  /\ starting' = starting \ {c}
  /\ owner' = IF owner = c THEN NoChrome ELSE owner

(* Mutant: a Chrome that could not be connected to is left alone. *)
ShutdownConnected(s) ==
  /\ At(s, "shutdown")
  /\ IF endpoint[s] = NoChrome THEN UNCHANGED <<starting, owner>> ELSE Dies(chrome[s])
  /\ Go(s, "cleanup")
  /\ UNCHANGED <<chrome, Remembered, endpoint, announced, launched, portFile, events>>

(* _shutdown_chrome: terminate, and kill where that does not help. *)
Shutdown(s) ==
  /\ At(s, "shutdown")
  /\ Dies(chrome[s])
  /\ Go(s, "cleanup")
  /\ UNCHANGED <<chrome, Remembered, endpoint, announced, launched, portFile, events>>

(* _cleanup_devtools_port looks for a running Chrome, and only then ... *)
CleanupCheck(s) ==
  /\ At(s, "cleanup")
  /\ Go(s, IF Alive # {} THEN "done" ELSE "unlink")
  /\ UNCHANGED <<chrome, Remembered, endpoint, Chromes, portFile, events>>

(* ... removes the file. *)
Unlink(s) ==
  /\ At(s, "unlink")
  /\ portFile' = NoChrome
  /\ Go(s, "done")
  /\ UNCHANGED <<chrome, Remembered, endpoint, Chromes, events>>

SessionStep(s) ==
  \/ OpenForUser(s) \/ SignedIn(s)
  \/ Check(s) \/ ReadPrevious(s) \/ Launch(s) \/ Connect(s) \/ WaitFails(s)
  \/ PageEnds(s) \/ Shutdown(s) \/ CleanupCheck(s) \/ Unlink(s)

(* A command killed while its Chrome runs leaves it running. *)
Kill(s) ==
  /\ stage[s] \in {"wait", "connected", "shutdown"} /\ events < MaxEvents
  /\ events' = events + 1
  /\ Go(s, "killed")
  /\ UNCHANGED <<chrome, Remembered, endpoint, Chromes, portFile>>

(* One Chrome has a profile; a second one hands over to it and exits. *)
TakeProfile(c) ==
  /\ c \in starting
  /\ starting' = starting \ {c}
  /\ owner' = IF owner = NoChrome THEN c ELSE owner
  /\ UNCHANGED <<stage, chrome, Remembered, endpoint, portFile, announced, launched, events>>

Publish ==
  /\ owner # NoChrome /\ owner \notin announced
  /\ portFile' = owner
  /\ announced' = announced \cup {owner}
  /\ UNCHANGED <<stage, chrome, Remembered, endpoint, starting, owner, launched, events>>

(* Chrome crashes, or the user quits it. *)
ChromeExits ==
  /\ owner # NoChrome /\ events < MaxEvents
  /\ events' = events + 1
  /\ owner' = NoChrome
  /\ UNCHANGED <<stage, chrome, Remembered, endpoint, starting, portFile, announced, launched>>

ChromeStep == Publish \/ ChromeExits \/ \E c \in starting : TakeProfile(c)

Next == ChromeStep \/ \E s \in Sessions : SessionStep(s) \/ Kill(s)

Spec == Init /\ [][Next]_browserVars
-----------------------------------------------------------------------------

Ended == {"refused", "done", "killed"}

TypeOK ==
  /\ stage \in [Sessions -> Ended \cup {"login", "signing in", "check", "read", "launch", "wait",
                                        "connected", "shutdown", "cleanup", "unlink"}]
  /\ portFile \in 1 .. launched \cup {NoChrome}
  /\ owner \in 1 .. launched \cup {NoChrome}

(* "A stale endpoint is rejected" (_wait_for_fresh_cdp_port): no command   *)
(* connects to the port of a Chrome launched before it looked at the       *)
(* profile, also where two commands race, one is killed, and a file left   *)
(* behind names a port that answers again.                                 *)
EndpointFresh == \A s \in Sessions : endpoint[s] \notin known[s]

(* A command that ended by itself leaves no Chrome of its own behind, to   *)
(* hold the profile against every later one, however its wait ended.       *)
ChromeReaped == \A s \in Sessions : stage[s] = "done" => chrome[s] \notin Alive
=============================================================================
