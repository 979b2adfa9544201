---------------------------- MODULE SunoCapture ----------------------------
(***************************************************************************)
(* The capture of one Suno workspace, archive/service.py, request by       *)
(* request: the workspace, its pages, every clip's metadata, then every    *)
(* advertised asset through its redirects, and the verdict.  The client it *)
(* asks is SunoClient's, whose tokens expire under it.                     *)
(***************************************************************************)
EXTENDS SunoClient

CONSTANTS
  MaxClips,     \* bound: clips of a workspace, numbered; page n holds clip n
  Kinds,        \* kinds of asset, numbered in the order they are downloaded
  MaxHops,      \* bound on the redirects of an asset: 21 in the code
  MaxCaptures   \* bound: captures, one after the other

VARIABLES
  project,   \* the workspace: clips, whether it has a count, and what details hide
  phase,     \* where the capture is
  route,     \* the alternative path, or the page, being asked for
  todo,      \* clips the phase has left; jobs, while assets are downloaded
  found,     \* clips_by_id
  jobs,      \* all_asset_jobs
  assets,    \* what was downloaded
  fetch,     \* the download under way
  outcome,   \* how the last capture ended
  captures

progress == <<todo, found, jobs, assets>>
captureVars == <<project, phase, route, progress, fetch, outcome, captures>>
vars == <<clientVars, captureVars>>

Projects == [clips : 0 .. MaxClips, counted : BOOLEAN, repeats : BOOLEAN,
             hidden : SUBSET (1 .. MaxClips)]

(* left: whether a request of this download went to another origin.        *)
NoFetch == [origin |-> None, authenticate |-> FALSE, hop |-> 0, left |-> FALSE]

Init ==
  /\ ClientInit
  /\ project \in Projects
  /\ phase = "idle" /\ route = 1
  /\ todo = {} /\ found = {} /\ jobs = {} /\ assets = {}
  /\ fetch = NoFetch
  /\ outcome = None
  /\ captures = 0

(* The paths tried for each thing, until one does not answer 404. *)
Routes == [workspace |-> 6, pages |-> 1, legacy |-> 3, detail |-> 4, lyrics |-> 3, aligned |-> 1]

First(S) == CHOOSE x \in S : \A y \in S : x <= y

Capture ==
  /\ phase = "idle" /\ captures < MaxCaptures
  /\ captures' = captures + 1
  /\ memory' = stored
  /\ phase' = "workspace" /\ route' = 1
  /\ Ask
  /\ found' = {} /\ jobs' = {} /\ assets' = {} /\ todo' = {}
  /\ outcome' = None
  /\ UNCHANGED <<stored, ended, expiries, errors, project, fetch>>

(* A reply of a lookup: 404, or what was asked for. *)
Replied(p) == phase = p /\ At("answered") /\ call.answer = "reply"

After(p) == phase' = p /\ route' = 1 /\ Ask

Kept == UNCHANGED <<auth, expiries, errors, project, fetch, outcome, captures>>

RouteMissing ==
  /\ \E p \in DOMAIN Routes : Replied(p) /\ p # "pages" /\ route < Routes[p]
  /\ route' = route + 1
  /\ Ask
  /\ UNCHANGED <<phase, progress>> /\ Kept

End(how) ==
  /\ phase' = "idle"
  /\ call' = Idle
  /\ outcome' = how
  /\ UNCHANGED <<auth, expiries, errors, project, route, progress, captures>>

WorkspaceMissing ==
  Replied("workspace") /\ route = Routes["workspace"] /\ End("missing") /\ UNCHANGED fetch

(* A 401 that stays, a denial or a server error ends the capture. *)
LookupRaises ==
  /\ phase \in DOMAIN Routes /\ At("answered") /\ call.answer # "reply"
  /\ End(call.answer)
  /\ UNCHANGED fetch

(* The first response holds the first page. *)
PageOf(n) == {n} \cap (1 .. project.clips)

WorkspaceFound ==
  /\ Replied("workspace")
  /\ found' = PageOf(1)
  /\ After("pages")
  /\ UNCHANGED <<todo, jobs, assets>> /\ Kept

Counted(clips) == project.counted /\ Cardinality(clips) >= project.clips

(* A page: an empty one, one seen before and the last of the count end the *)
(* loop.                                                                   *)
PageFound ==
  /\ Replied("pages")
  /\ LET more == PageOf(route)
         repeated == project.repeats /\ route > 1
     IN /\ found' = IF repeated THEN found ELSE found \cup more
        /\ IF repeated \/ more = {} \/ Counted(found \cup more)
             THEN After("legacy")
             ELSE route' = route + 1 /\ Ask /\ UNCHANGED phase
  /\ UNCHANGED <<todo, jobs, assets>> /\ Kept

PageMissing ==
  /\ Replied("pages")
  /\ After("legacy")
  /\ UNCHANGED progress /\ Kept

(* The media a clip advertises: a detail with an empty URL hides what the  *)
(* page had told.                                                          *)
Candidates(clips, hidden) == Kinds \X (clips \ hidden)

StartDownloads(hidden) ==
  /\ phase' = "assets" /\ route' = 1 /\ call' = Idle
  /\ jobs' = Candidates(found', hidden)
  /\ todo' = jobs'

(* The legacy endpoint adds no clip here; then the metadata of each clip. *)
LegacyDone ==
  /\ Replied("legacy")
  /\ UNCHANGED <<found, assets>>
  /\ IF found = {}
       THEN StartDownloads({})
       ELSE After("detail") /\ todo' = found /\ UNCHANGED jobs
  /\ Kept

EachClip(p, q) ==
  /\ IF todo = {First(todo)}
       THEN After(q) /\ todo' = found
       ELSE After(p) /\ todo' = todo \ {First(todo)}
  /\ UNCHANGED <<found, jobs, assets>>

DetailDone == Replied("detail") /\ EachClip("detail", "lyrics") /\ Kept

LyricsDone == Replied("lyrics") /\ After("aligned") /\ UNCHANGED progress /\ Kept

AlignedDone ==
  /\ Replied("aligned")
  /\ IF todo = {First(todo)}
       THEN UNCHANGED <<found, assets>> /\ StartDownloads(project.hidden)
       ELSE After("lyrics") /\ todo' = todo \ {First(todo)} /\ UNCHANGED <<found, jobs, assets>>
  /\ Kept

Lookup ==
  RouteMissing \/ WorkspaceMissing \/ LookupRaises \/ WorkspaceFound \/ PageFound
    \/ PageMissing \/ LegacyDone \/ DetailDone \/ LyricsDone \/ AlignedDone

-----------------------------------------------------------------------------

Job == CHOOSE j \in todo : \A k \in todo : j[1] < k[1] \/ (j[1] = k[1] /\ j[2] <= k[2])

Downloading == phase = "assets" /\ fetch # NoFetch

NotFetching == UNCHANGED <<auth, expiries, errors, project, phase, route, found, jobs, outcome, captures>>

(* The credentials go to the API's origin only, and need a JWT there. *)
Credentials == fetch.authenticate /\ fetch.origin = "api"

Approach(f) ==
  call' = IF f.authenticate /\ f.origin = "api"
            THEN [stage |-> "ensure", retry |-> FALSE, sent |-> 0, answer |-> None]
            ELSE [stage |-> "send", retry |-> FALSE, sent |-> 0, answer |-> None]

StartDownload ==
  /\ phase = "assets" /\ fetch = NoFetch /\ todo # {}
  /\ \E origin \in {"api", "cdn"} :
       fetch' = [origin |-> origin, authenticate |-> origin = "api", hop |-> 1,
                 left |-> origin # "api"]
  /\ Approach(fetch')
  /\ UNCHANGED <<todo, assets>> /\ NotFetching

(* Mutant: the origin alone decides, at every hop. *)
RedirectBack ==
  /\ Downloading /\ At("send") /\ fetch.hop < MaxHops
  /\ \E origin \in {"api", "cdn"} :
       fetch' = [origin |-> origin, authenticate |-> origin = "api", hop |-> fetch.hop + 1,
                 left |-> fetch.left \/ origin # "api"]
  /\ Approach(fetch')
  /\ UNCHANGED <<todo, assets>> /\ NotFetching

(* An origin once left is not trusted again. *)
Redirect ==
  /\ Downloading /\ At("send") /\ fetch.hop < MaxHops
  /\ \E origin \in {"api", "cdn"} :
       fetch' = [origin |-> origin,
                 authenticate |-> fetch.authenticate /\ origin = fetch.origin,
                 hop |-> fetch.hop + 1,
                 left |-> fetch.left \/ origin # "api"]
  /\ Approach(fetch')
  /\ UNCHANGED <<todo, assets>> /\ NotFetching

Downloaded(done) ==
  /\ assets' = assets \cup done
  /\ todo' = todo \ {Job}
  /\ fetch' = NoFetch
  /\ call' = Idle
  /\ NotFetching

Body == Downloading /\ At("send") /\ Downloaded({Job})

(* A status of 400 and more, no body, a transfer that breaks off, a        *)
(* redirect too many, a token that cannot be had: each becomes a warning.  *)
DownloadFails == Downloading /\ (At("send") \/ At("answered")) /\ Downloaded({})

Download == StartDownload \/ Redirect \/ Body \/ DownloadFails

-----------------------------------------------------------------------------

Done == phase = "assets" /\ fetch = NoFetch /\ todo = {}

(* Mutant: complete means that every job was tried. *)
StoreTried ==
  /\ Done
  /\ End(IF project.counted => Counted(found) THEN "complete" ELSE "partial")
  /\ UNCHANGED fetch

(* The envelope is normalized, rendered and persisted, and the command     *)
(* exits with 0 where the capture is complete, with 2 where it is not.     *)
Store ==
  /\ Done
  /\ End(IF Cardinality(assets) = Cardinality(jobs) /\ (project.counted => Counted(found))
           THEN "complete" ELSE "partial")
  /\ UNCHANGED fetch

(* Any of the three raises: exit code 1, and nothing of it is kept. *)
StoreFails ==
  /\ Done /\ errors < MaxErrors
  /\ errors' = errors + 1
  /\ phase' = "idle" /\ call' = Idle /\ outcome' = "error"
  /\ UNCHANGED <<auth, expiries, project, route, progress, fetch, captures>>

(* A request of a lookup; of a download only the JWT is asked for here. *)
Requesting ==
  /\ IF Downloading THEN EnsureJwt \/ RefreshSession \/ RefreshJwt \/ (At("refresh") /\ RequestFails)
                    ELSE Request
  /\ UNCHANGED captureVars

Process == Capture \/ Lookup \/ Download \/ Store \/ StoreFails \/ Requesting

Next == Process \/ (Environment /\ UNCHANGED captureVars)

Spec == Init /\ [][Next]_vars
-----------------------------------------------------------------------------

TypeOK ==
  /\ project \in Projects
  /\ phase \in DOMAIN Routes \cup {"idle", "assets"}
  /\ call.stage \in {"idle", "ensure", "refresh", "send", "answered"}
  /\ found \subseteq 1 .. MaxClips
  /\ assets \subseteq jobs /\ jobs \subseteq Kinds \X (1 .. MaxClips)
  /\ fetch.hop \in 0 .. MaxHops

(* docs/suno-audio.md: API authentication is scoped to the API's origin    *)
(* and removed when a redirect leaves it; it is not given back when a      *)
(* later redirect returns there.                                           *)
CredentialsScoped == Downloading /\ Credentials => ~fetch.left

(* A capture called complete of a workspace that tells its count, whose    *)
(* details hide nothing, holds every asset of every clip: however pages    *)
(* repeat, routes miss, tokens expire and downloads fail.                  *)
CompleteMeansArchived ==
  outcome = "complete" /\ project.counted /\ project.hidden = {}
    => assets = Kinds \X (1 .. project.clips)

(* Tokens that expire, between two requests or under one, never fail a     *)
(* capture: that takes a session that ended, a cookie stored over another  *)
(* session, or a request that fails of itself.                             *)
SurvivesExpiry ==
  outcome \in {"auth", "denied", "error"}
    => errors > 0 \/ ended # {} \/ memory.session # memory.cookie
=============================================================================
