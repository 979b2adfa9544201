----------------------------- MODULE MCCaptures -----------------------------
(***************************************************************************)
(* The programs that read a provider, one at a time: the capture of a Suno  *)
(* workspace and of a SoundCloud account, the browser sessions of the      *)
(* other plugins, the discovery of a collection, and the snapshot of Chrome's    *)
(* bookmarks.  They share no state, and an execution explores one of them. *)
(***************************************************************************)
EXTENDS Naturals, FiniteSets

CONSTANTS
  Parts, None,
  Cookies, MaxExpiries, MaxEnds, MaxErrors, MaxClips, AssetKinds, MaxHops, MaxCaptures,  \* SunoCapture
  MaxRetries, PageCap, MaxListingPages, MaxFailures,                                \* SoundCloudCapture
  Browsers, MaxEvents,                                                              \* BrowserSession
  Loops, Items, PageSize, Cursors, MaxPages, Endpoints, Limits, MaxRemovals,        \* CollectionDiscovery
  MaxFailedRequests, Another,
  Attempts, MaxWrites, Cut                                                          \* BookmarksSnapshot

(* "Nothing" is no Chrome, no count, no cookie and no cursor; "another" is *)
(* none of what a provider has sent.                                       *)
ASSUME NoneAssumption ==
  /\ None \notin Nat
  /\ None \notin {"reply", "auth", "denied", "error", "complete"}
  /\ None \notin {"empty-page", "no-more-pages", "empty-collection", "repeated-page",
                 "repeated-cursor", "safety-cap", "max-items-reached", "expected-count-reached"}
ASSUME SunoAssumption == IsFiniteSet(AssetKinds) /\ AssetKinds \subseteq Nat /\ MaxClips \in Nat
ASSUME PagesAssumption == MaxListingPages \in Nat /\ PageCap \in Nat \ {0}
ASSUME AnotherAssumption == Another \notin Nat /\ Another # None
ASSUME DiscoveryAssumption == PageSize \in Nat \ {0} /\ MaxPages \in Nat \ {0}
ASSUME AttemptsAssumption == Attempts \in Nat \ {0}

VARIABLES
  part,
  stored, memory, ended, call, expiries, errors, project, phase, route, todo, found, jobs, assets,
  fetch, outcome, captures,
  scope, account, listing, cursor, links, asked, attempt, units, warned, failures, exit,
  stage, chrome, previous, atLaunch, connected, starting, owner, portFile, announced, launched,
  known, events,
  loop, provider, limit, catalogue, removed, endpoint, number, payload, used, seen, pages,
  expected, result, pc, run, failedRequests,
  files, mtime, held, step, try, before, bytes, backup, selected, writes

Suno == INSTANCE SunoCapture WITH Kinds <- AssetKinds

SoundCloud == INSTANCE SoundCloudCapture WITH
  seen <- links, pages <- units, MaxPages <- MaxListingPages

Browser == INSTANCE BrowserSession WITH
  Sessions <- Browsers, endpoint <- connected, NoChrome <- None

Snapshot == INSTANCE BookmarksSnapshot WITH
  attempt <- try, payload <- bytes, Retries <- Attempts, NoBytes <- None

Discovery == INSTANCE CollectionDiscovery WITH
  errors <- failedRequests, MaxErrors <- MaxFailedRequests

sunoVars == <<stored, memory, ended, call, expiries, errors, project, phase, route, todo, found,
              jobs, assets, fetch, outcome, captures>>
soundVars == <<scope, account, listing, cursor, links, asked, attempt, units, warned, failures, exit>>
browserVars == <<stage, chrome, previous, atLaunch, connected, starting, owner, portFile,
                 announced, launched, known, events>>
discoveryVars == <<loop, provider, limit, catalogue, removed, endpoint, number, payload, used,
                   seen, pages, expected, result, pc, run, failedRequests>>
snapshotVars == <<files, mtime, held, step, try, before, bytes, backup, selected, writes>>
all == <<part, sunoVars, soundVars, browserVars, discoveryVars, snapshotVars>>

(* A part that is not explored stays in one of its initial states. *)
Init ==
  /\ part \in Parts
  /\ Suno!Init
  /\ part # "suno" =>
       project = [clips |-> 0, counted |-> FALSE, repeats |-> FALSE, hidden |-> {}]
  /\ SoundCloud!Init
  /\ part # "soundcloud" =>
       /\ scope = "account"
       /\ account = [pages |-> [l \in {"tracks", "playlists"} |-> 1], loop |-> 0]
  /\ Browser!Init
  /\ part # "browser" =>
       owner = None /\ portFile = None /\ \A s \in Browsers : stage[s] = "check"
  /\ Discovery!Init
  /\ part # "discovery" =>
       /\ loop = CHOOSE l \in Loops : TRUE
       /\ limit = None /\ catalogue = <<>>
       /\ provider = [honest |-> FALSE, counted |-> FALSE, cursors |-> FALSE, numbered |-> FALSE]
  /\ Snapshot!Init
  /\ part # "snapshot" => \A n \in Snapshot!Names : Snapshot!Whole(files[n])

Next ==
  \/ /\ part = "suno" /\ Suno!Next
     /\ UNCHANGED <<part, soundVars, browserVars, discoveryVars, snapshotVars>>
  \/ /\ part = "soundcloud" /\ SoundCloud!Next
     /\ UNCHANGED <<part, sunoVars, browserVars, discoveryVars, snapshotVars>>
  \/ /\ part = "browser" /\ Browser!Next
     /\ UNCHANGED <<part, sunoVars, soundVars, discoveryVars, snapshotVars>>
  \/ /\ part = "discovery" /\ Discovery!Next
     /\ UNCHANGED <<part, sunoVars, soundVars, browserVars, snapshotVars>>
  \/ /\ part = "snapshot" /\ Snapshot!Next
     /\ UNCHANGED <<part, sunoVars, soundVars, browserVars, discoveryVars>>

(* CollectionDiscovery alone promises an end. *)
Spec ==
  /\ Init /\ [][Next]_all
  /\ WF_discoveryVars(part = "discovery" /\ Discovery!Discover)
-----------------------------------------------------------------------------
(* CredentialsScoped of SunoCapture: an origin that was left gets no       *)
(* credentials when a redirect returns to it.                              *)
CredentialsScoped == Suno!CredentialsScoped

(* CompleteMeansArchived: a complete capture holds every asset.            *)
CompleteMeansArchived == Suno!CompleteMeansArchived

(* SurvivesExpiry: a token that expires fails no capture.                  *)
SurvivesExpiry == Suno!SurvivesExpiry

(* ExitZeroMeansAll of SoundCloudCapture: exit code 0 leaves no page out   *)
(* that the cap does not.                                                  *)
ExitZeroMeansAll == SoundCloud!ExitZeroMeansAll

(* EndpointFresh of BrowserSession: no command talks to an older Chrome.   *)
EndpointFresh == Browser!EndpointFresh

(* ChromeReaped: a command that ends leaves no Chrome of its own running.  *)
ChromeReaped == Browser!ChromeReaped

(* CompleteMeansAll of CollectionDiscovery: what calls itself complete is. *)
CompleteMeansAll == Discovery!CompleteMeansAll

(* DiscoveryEnds: a discovery ends, whatever it is answered.               *)
DiscoveryEnds == part = "discovery" => Discovery!DiscoveryEnds

(* ProjectPagesEnd: the pages of a project end, whatever is answered.      *)
ProjectPagesEnd == part = "discovery" => Discovery!ProjectPagesEnd

(* SnapshotConsistent of BookmarksSnapshot: what is read without a lock    *)
(* while Chrome writes is one whole version of the file.                   *)
SnapshotConsistent == Snapshot!SnapshotConsistent
=============================================================================
