------------------------ MODULE CollectionDiscovery ------------------------
(***************************************************************************)
(* The loops that page through what a provider lists: the workspaces of a  *)
(* Suno account and the tracks of a SoundCloud account                     *)
(* (plugins/*/collection.py), the clips of a Suno project                  *)
(* (SunoClient.get_project_pages), and the DistroKid discovery, which      *)
(* fails before it pages.  The batch runner then plans, captures and       *)
(* finalizes what was discovered.  A provider either serves a catalogue,   *)
(* from which sources may be removed meanwhile, or answers anything.  The  *)
(* workspace response before a project's pages, which is asked of the same *)
(* address, stands for the first of them.                                  *)
(***************************************************************************)
EXTENDS Naturals, Sequences, FiniteSets

CONSTANTS
  Loops,       \* the loops that are explored
  Items,       \* what the provider lists
  PageSize,    \* of an honest provider
  Cursors,     \* cursors and next_href links of a provider that is not honest
  MaxPages,    \* _MAX_PAGES
  Endpoints,   \* how many list endpoints Suno discovery probes
  Limits,      \* --max-items, or None
  MaxRemovals, \* bound: sources removed while they are listed
  MaxErrors,   \* bound: requests that fail
  Another,     \* an item, a cursor or a page number that was never sent before
  None

SunoList == "suno-list"
SoundCloudTracks == "soundcloud-tracks"
SunoProject == "suno-project"
DistroKid == "distrokid"

VARIABLES
  loop,       \* which loop runs
  provider,   \* how it answers; it does not change
  limit,      \* request.max_items
  catalogue,  \* what an honest provider lists, in order
  removed,
  endpoint,   \* which endpoint is probed
  number,     \* page_num
  payload,    \* the last response
  used,       \* seen_cursors, seen_next_hrefs, seen_page_numbers
  seen,       \* seen_ids
  pages,      \* pages_observed
  expected,   \* expected_item_count
  result,     \* terminal_signal and discovery_complete
  pc,
  run,        \* the status of the batch run
  errors

source == <<loop, provider, limit>>
world == <<catalogue, removed>>
found == <<used, seen, expected>>
vars == <<source, world, endpoint, number, payload, found, pages, result, pc, run, errors>>

NoPayload == [items |-> <<>>, cursor |-> None, more |-> FALSE, page |-> None, count |-> None]

(* numbered: the response of a project page says which page it is.         *)
Providers ==
  {p \in [honest: BOOLEAN, counted: BOOLEAN, cursors: BOOLEAN, numbered: BOOLEAN] :
     /\ p.numbered => loop = SunoProject
     /\ loop = SoundCloudTracks /\ p.honest => p.cursors
     /\ p.cursors => p.honest}

Init ==
  /\ loop \in Loops
  /\ provider \in Providers
  /\ limit \in IF loop = SunoProject THEN {None} ELSE Limits
  /\ \E n \in IF provider.honest THEN 0 .. Cardinality(Items) ELSE {0} :
       catalogue = [i \in 1 .. n |-> i]
  /\ removed = {}
  /\ endpoint = 1 /\ number = 1
  /\ payload = NoPayload
  /\ used = {} /\ seen = {} /\ pages = 0
  /\ expected = None
  /\ result = [signal |-> None, complete |-> FALSE]
  /\ pc = IF loop = SoundCloudTracks THEN "account" ELSE "request"
  /\ run = "discovering" /\ errors = 0

Listed == {catalogue[i] : i \in DOMAIN catalogue}

From(n) == SubSeq(catalogue, (n - 1) * PageSize + 1,
                  IF n * PageSize < Len(catalogue) THEN n * PageSize ELSE Len(catalogue))

(* _extract_items: the items of a page and a count, where it has one.      *)
HonestPage(n) ==
  LET more == n * PageSize < Len(catalogue) IN
  [items |-> From(n),
   cursor |-> IF more /\ provider.cursors THEN n + 1 ELSE None,
   more |-> more,
   page |-> IF provider.numbered THEN n ELSE None,
   count |-> IF provider.counted THEN Len(catalogue) ELSE None]

(* There is always another cursor and another page number; items that are  *)
(* counted, against a total or a limit, are told apart.  What a loop does  *)
(* not read is left at one value.                                          *)
AnyPages ==
  [items: {<<>>} \cup {<<i>> : i \in Items}
            \cup (IF provider.counted \/ limit # None THEN {} ELSE {<<Another>>}),
   cursor: IF loop = SunoProject THEN {None} ELSE Cursors \cup {Another, None},
   more: IF loop = SunoList THEN BOOLEAN ELSE {FALSE},
   page: IF provider.numbered THEN (1 .. MaxPages) \cup {Another} ELSE {None},
   count: IF provider.counted THEN {Cardinality(Items)} ELSE {None}]

Answers(n) == IF provider.honest THEN {HonestPage(n)} ELSE AnyPages

Cap(n) == IF n > MaxPages THEN MaxPages + 1 ELSE n

(* The count of tracks comes with the account, before the first page. *)
Account ==
  /\ pc = "account"
  /\ \E answer \in Answers(1) : expected' = answer.count
  /\ pc' = "request"
  /\ UNCHANGED <<source, world, endpoint, number, payload, used, seen, pages, result, run,
                 errors>>

(* The provider is asked for a page.  An error ends a loop without a       *)
(* signal; Suno's first page is asked of one endpoint after another.       *)
Request ==
  /\ pc = "request"
  /\ loop # DistroKid
  /\ loop = SoundCloudTracks => number <= MaxPages
  /\ \E answer \in Answers(number) :
       /\ payload' = answer
       /\ expected' = IF pages = 0 /\ loop # SoundCloudTracks THEN answer.count ELSE expected
  /\ pages' = Cap(pages + 1)
  /\ pc' = "collect"
  /\ UNCHANGED <<source, world, endpoint, number, used, seen, result, run, errors>>

Probing == loop = SunoList /\ pages = 0

(* Of a project's pages a 404 is the last, any other error fails the       *)
(* capture; without a first response there is no workspace to capture.     *)
AfterFailure ==
  IF loop # SunoProject THEN {"result"}
  ELSE IF pages = 0 THEN {"finalize"} ELSE {"result", "finalize"}

RequestFails ==
  /\ pc \in {"account", "request"} /\ loop # DistroKid
  /\ errors < MaxErrors
  /\ errors' = errors + 1
  /\ IF Probing /\ endpoint < Endpoints
       THEN endpoint' = endpoint + 1 /\ UNCHANGED pc
       ELSE pc' \in AfterFailure /\ UNCHANGED endpoint
  /\ UNCHANGED <<source, world, number, payload, found, pages, result, run>>

(* _wait_for_fresh_cdp_port is called without its arguments: a TypeError,  *)
(* which the caller turns into a warning.                                  *)
DistroKidFails ==
  /\ pc = "request" /\ loop = DistroKid
  /\ pc' = "result"
  /\ UNCHANGED <<source, world, endpoint, number, payload, found, pages, result, run, errors>>

(* Suno's loop looks at the cap before it looks whether there is more.     *)
SafetyCap ==
  /\ \/ pc = "request" /\ loop = SoundCloudTracks
     \/ pc = "advance" /\ loop = SunoList
  /\ number > MaxPages
  /\ result' = [result EXCEPT !.signal = "safety-cap"]
  /\ pc' = "result"
  /\ UNCHANGED <<source, world, endpoint, number, payload, found, pages, run, errors>>

Ends(signal) ==
  /\ result' = [result EXCEPT !.signal = signal]
  /\ pc' = "result"

Goes(next) == pc' = next /\ UNCHANGED result

Fresh == {payload.items[i] : i \in DOMAIN payload.items} \ seen

(* What is seen for the first time is not remembered if it never comes     *)
(* back: a set without it answers the same questions.                      *)
Remember(set, new) == set \cup (new \ {Another, None})

(* Items are taken one by one until the limit.                             *)
Taken ==
  IF limit = None \/ Cardinality(seen \cup Fresh) < limit
    THEN Fresh
    ELSE CHOOSE new \in SUBSET Fresh : Cardinality(seen \cup new) = limit

Counted(new) == expected # None /\ Cardinality(seen \cup new) >= expected

Limited(new) == limit # None /\ new # {} /\ Cardinality(seen \cup new) >= limit

SunoCollect ==
  /\ pc = "collect" /\ loop = SunoList
  /\ seen' = Remember(seen, Taken)
  /\ IF pages > 1 /\ payload.items = <<>> THEN Ends("empty-page")
     ELSE IF Limited(Taken) THEN Ends("max-items-reached")
     ELSE IF pages > 1 /\ Taken = {} THEN Ends("repeated-page")
     ELSE IF pages > 1 /\ Counted(Taken) THEN Ends("expected-count-reached")
     ELSE Goes("advance")
  /\ number' = Cap(pages + 1)
  /\ UNCHANGED <<source, world, endpoint, payload, used, expected, pages, run, errors>>

(* Mutant: nothing stops at the cap. *)
SunoAdvanceUncapped ==
  /\ pc = "advance" /\ loop = SunoList
  /\ IF ~payload.more /\ payload.cursor = None THEN Ends("no-more-pages") /\ UNCHANGED used
     ELSE IF payload.cursor \in used THEN Ends("repeated-cursor") /\ UNCHANGED used
     ELSE used' = Remember(used, {payload.cursor}) /\ Goes("request")
  /\ UNCHANGED <<source, world, endpoint, number, payload, seen, expected, pages, run, errors>>

(* A cursor that was used before ends the loop; without a cursor, has_more *)
(* asks for the next page number.                                          *)
SunoAdvance ==
  /\ pc = "advance" /\ loop = SunoList /\ number <= MaxPages
  /\ IF ~payload.more /\ payload.cursor = None THEN Ends("no-more-pages") /\ UNCHANGED used
     ELSE IF payload.cursor \in used THEN Ends("repeated-cursor") /\ UNCHANGED used
     ELSE used' = Remember(used, {payload.cursor}) /\ Goes("request")
  /\ UNCHANGED <<source, world, endpoint, number, payload, seen, expected, pages, run, errors>>

SoundCloudCollect ==
  /\ pc = "collect" /\ loop = SoundCloudTracks
  /\ seen' = Remember(seen, Taken)
  /\ IF pages = 1 /\ payload.items = <<>> THEN Ends("empty-collection")
     ELSE IF Limited(Taken) THEN Ends("max-items-reached")
     ELSE IF Taken = {} /\ payload.items # <<>> THEN Ends("repeated-page")
     ELSE Goes("advance")
  /\ UNCHANGED <<source, world, endpoint, number, payload, used, expected, pages, run, errors>>

Href == payload.cursor

SoundCloudAdvance ==
  /\ pc = "advance" /\ loop = SoundCloudTracks
  /\ IF Href = None THEN Ends("no-more-pages") /\ UNCHANGED used
     ELSE IF Href \in used THEN Ends("repeated-cursor") /\ UNCHANGED used
     ELSE /\ used' = Remember(used, {Href})
          /\ IF Counted({}) THEN Ends("expected-count-reached") ELSE Goes("request")
  /\ number' = IF pc' = "request" THEN Cap(number + 1) ELSE number
  /\ UNCHANGED <<source, world, endpoint, payload, seen, expected, pages, run, errors>>

(* A page number seen before ends the loop, before its clips are taken.    *)
ProjectCollect ==
  /\ pc = "collect" /\ loop = SunoProject
  /\ IF payload.page \in used
       THEN Ends("repeated-page") /\ UNCHANGED <<used, seen, number>>
       ELSE /\ used' = Remember(used, {payload.page})
            /\ seen' = Remember(seen, Fresh)
            /\ number' = Cap(number + 1)
            /\ IF payload.items = <<>> THEN Ends("empty-page")
               ELSE IF Counted(Fresh) THEN Ends("expected-count-reached")
               ELSE Goes("request")
  /\ UNCHANGED <<source, world, endpoint, payload, expected, pages, run, errors>>

(* Mutant: a loop that was ended by an error passes for complete. *)
CompleteUnsignalled(signal) ==
  /\ loop # SunoProject => signal \notin {"repeated-page", "repeated-cursor", "safety-cap"}
  /\ expected # None => Cardinality(seen) >= expected

(* An error leaves no signal (_build_result).  The capture of a project    *)
(* does not ask how its pages ended, only how many clips there should be.  *)
Complete(signal) ==
  /\ loop # SunoProject =>
       signal \notin {None, "repeated-page", "repeated-cursor", "safety-cap"}
  /\ expected # None => Cardinality(seen) >= expected

BuildResult ==
  /\ pc = "result"
  /\ result' = [result EXCEPT !.complete = Complete(result.signal)]
  /\ pc' = "finalize"
  /\ UNCHANGED <<source, world, endpoint, number, payload, found, pages, run, errors>>

(* The runner plans and captures what was discovered; no capture failing,  *)
(* the run is complete.                                                    *)
Finalize ==
  /\ pc = "finalize" /\ loop # SunoProject
  /\ run' = "complete"
  /\ pc' = "done"
  /\ UNCHANGED <<source, world, endpoint, number, payload, found, pages, result, errors>>

(* A source is removed from the account.                                   *)
Remove ==
  /\ provider.honest /\ run = "discovering" /\ Cardinality(removed) < MaxRemovals
  /\ \E i \in DOMAIN catalogue :
       /\ removed' = removed \cup {catalogue[i]}
       /\ catalogue' = SubSeq(catalogue, 1, i - 1) \o SubSeq(catalogue, i + 1, Len(catalogue))
  /\ UNCHANGED <<source, endpoint, number, payload, found, pages, result, pc, run, errors>>

Discover ==
  \/ Account \/ Request \/ RequestFails \/ DistroKidFails \/ SafetyCap
  \/ SunoCollect \/ SunoAdvance \/ SoundCloudCollect \/ SoundCloudAdvance
  \/ ProjectCollect \/ BuildResult \/ Finalize

Next == Discover \/ Remove

(* Every request is answered or fails: the HTTP clients have timeouts.     *)
Spec == Init /\ [][Next]_vars /\ WF_vars(Discover)
-----------------------------------------------------------------------------
TypeOK ==
  /\ loop \in Loops /\ provider \in Providers /\ limit \in Limits
  /\ Listed \cup removed \subseteq Items
  /\ endpoint \in 1 .. Endpoints
  /\ number \in 1 .. MaxPages + 1 /\ pages \in 0 .. MaxPages + 1
  /\ seen \subseteq Items
  /\ pc \in {"account", "request", "collect", "advance", "result", "finalize", "done"}
  /\ run \in {"discovering", "complete"}

(* A discovery that calls itself complete has found every source that is   *)
(* still there, although pages fail, have no count, or shift because       *)
(* sources are removed while a counted collection is being listed.  The    *)
(* clips of a project have to be counted for that.                         *)
CompleteMeansAll ==
  /\ pc \in {"finalize", "done"} /\ result.complete
  /\ provider.honest /\ limit = None
  /\ expected # None \/ (removed = {} /\ loop # SunoProject)
  => Listed \subseteq seen

Ended == pc \in {"finalize", "done"}

(* The discovery of a collection ends, whatever the provider answers, and  *)
(* so do the pages of a project that exists (the page caps).               *)
DiscoveryEnds == provider.honest \/ loop # SunoProject => <>Ended

(* "Detects and breaks out of repeated pages or empty pages to prevent     *)
(* infinite loops": the pages of a project end, whatever is answered       *)
(* (get_project_pages).                                                    *)
ProjectPagesEnd == loop = SunoProject => <>Ended
=============================================================================
