------------------------- MODULE SoundCloudCapture -------------------------
(***************************************************************************)
(* A capture from SoundCloud, strategies/api.py: one track or one playlist *)
(* that /resolve finds, or an account: the profile, then the pages of its  *)
(* tracks and of its playlists.  Each is fetched by client.get_json with   *)
(* its attempts.  A page that cannot be had, and a link seen before, end a *)
(* listing with a warning; the command line calls a capture without        *)
(* warnings complete.                                                      *)
(***************************************************************************)
EXTENDS Naturals, FiniteSets

CONSTANTS
  MaxRetries,  \* attempts of one request
  PageCap,     \* pages of one listing: 500 for tracks, 50 for playlists
  MaxPages,    \* bound: pages an account has, of each listing
  MaxFailures  \* bound: answers that are not the page asked for

VARIABLES
  scope,     \* what is captured: an account, or one track or playlist
  account,   \* pages of each listing, and the one whose link leads to itself
  listing,   \* what is being fetched
  cursor,    \* the page asked for: next_href
  seen,      \* links followed in this listing
  asked,     \* requests for pages of this listing
  attempt,   \* attempt of get_json
  pages,     \* raw units: pages of each listing
  warned,
  failures,
  exit       \* exit code of the command

soundVars == <<scope, account, listing, cursor, seen, asked, attempt, pages, warned, failures, exit>>

Listings == {"tracks", "playlists"}

(* What a capture keeps units of. *)
Kinds == Listings \cup {"resource"}

Running == 9

Init ==
  /\ account \in [pages : [Listings -> 1 .. MaxPages], loop : 0 .. MaxPages]
  /\ scope \in {"account", "resource"}
  /\ listing = scope
  /\ cursor = 1 /\ seen = {} /\ asked = 0
  /\ attempt = 1
  /\ pages = [l \in Kinds |-> {}]
  /\ warned = FALSE
  /\ failures = 0
  /\ exit = Running

(* The link a page gives: to the next page, to itself, or none. *)
NextHref ==
  IF account.loop = cursor THEN cursor
  ELSE IF cursor < account.pages[listing] THEN cursor + 1 ELSE 0

Begin(l) == listing' = l /\ cursor' = 1 /\ seen' = {} /\ asked' = 0 /\ attempt' = 1

(* 0 is a complete capture, 2 a partial one, 1 an error. *)
Ends(code) ==
  listing' = "ended" /\ exit' = code /\ UNCHANGED <<cursor, seen, asked, attempt>>

(* The end of a listing: the next one, or the end of the capture. *)
Leave ==
  IF listing = "tracks" THEN Begin("playlists") /\ UNCHANGED exit
  ELSE Ends(IF warned' THEN 2 ELSE 0)

Profile ==
  /\ listing = "account"
  /\ Begin("tracks")
  /\ UNCHANGED <<scope, account, pages, warned, failures, exit>>

(* A track or a playlist is one document. *)
Resolve ==
  /\ listing = "resource"
  /\ pages' = [pages EXCEPT !["resource"] = {1}]
  /\ Ends(0)
  /\ UNCHANGED <<scope, account, warned, failures>>

(* Mutant: the loop ends at a repeated link and nobody is told. *)
PageQuietly ==
  /\ listing \in Listings
  /\ pages' = [pages EXCEPT ![listing] = @ \cup {cursor}]
  /\ UNCHANGED <<scope, account, failures, warned>>
  /\ IF NextHref \in seen \cup {0} \/ asked + 1 = PageCap
       THEN Leave
       ELSE /\ seen' = seen \cup {NextHref}
            /\ cursor' = NextHref /\ asked' = asked + 1 /\ attempt' = 1
            /\ UNCHANGED <<listing, exit>>

(* A page arrives: the page cap ends the loop without a warning. *)
Page ==
  /\ listing \in Listings
  /\ pages' = [pages EXCEPT ![listing] = @ \cup {cursor}]
  /\ UNCHANGED <<scope, account, failures>>
  /\ warned' = (warned \/ NextHref \in seen)
  /\ IF NextHref \in seen \cup {0} \/ asked + 1 = PageCap
       THEN Leave
       ELSE /\ seen' = seen \cup {NextHref}
            /\ cursor' = NextHref /\ asked' = asked + 1 /\ attempt' = 1
            /\ UNCHANGED <<listing, exit>>

Fails == failures < MaxFailures /\ failures' = failures + 1

(* 429 and a transport error are tried again, at most MaxRetries times. *)
Retry ==
  /\ listing # "ended" /\ attempt < MaxRetries /\ Fails
  /\ attempt' = attempt + 1
  /\ UNCHANGED <<scope, account, listing, cursor, seen, asked, pages, warned, exit>>

(* SoundCloudApiError: the attempts are used up, or any other status, 5xx  *)
(* too, at once.  Without the profile, or the one source, no capture.      *)
RequestFails ==
  /\ Fails
  /\ UNCHANGED <<scope, account, pages>>
  /\ \/ listing \in {"account", "resource"} /\ Ends(1) /\ UNCHANGED warned
     \/ listing \in Listings /\ warned' = TRUE /\ Leave

(* A 429 whose Retry-After is a date: float() raises a ValueError, which   *)
(* the strategy does not catch; the pages fetched so far are dropped.      *)
RetryAfterDate ==
  /\ listing # "ended" /\ Fails
  /\ Ends(1)
  /\ UNCHANGED <<scope, account, pages, warned>>

Process == Profile \/ Resolve \/ Page \/ Retry \/ RequestFails \/ RetryAfterDate

Next == Process

Spec == Init /\ [][Next]_soundVars
-----------------------------------------------------------------------------

TypeOK ==
  /\ listing \in Kinds \cup {"account", "ended"}
  /\ \A l \in Kinds : pages[l] \subseteq 1 .. MaxPages
  /\ attempt \in 1 .. MaxRetries /\ asked \in 0 .. PageCap
  /\ exit \in {0, 1, 2, Running}

(* Exit code 0: the source was archived, and of an account both listings   *)
(* whole, whatever failed on the way and wherever a link leads; except     *)
(* that the pages after the cap are left out and nothing tells.            *)
ExitZeroMeansAll ==
  exit = 0 =>
    IF scope = "resource"
      THEN pages["resource"] = {1}
      ELSE \A l \in Listings : pages[l] = 1 .. account.pages[l] \/ account.pages[l] > PageCap
=============================================================================
