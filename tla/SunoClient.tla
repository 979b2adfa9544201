----------------------------- MODULE SunoClient -----------------------------
(***************************************************************************)
(* How a Suno request is authenticated: plugins/suno/auth.py and           *)
(* client.py.  The auth file holds the Clerk cookie, the session it was    *)
(* last used with and a JWT; a client has a copy of it from its start to   *)
(* its end and writes the copy back after every refresh.  Meanwhile tokens *)
(* expire, sessions end, and the user may store a new cookie.              *)
(***************************************************************************)
EXTENDS Naturals, FiniteSets

CONSTANTS
  Cookies,      \* Clerk cookies, by generation; cookie k belongs to session k
  MaxExpiries,  \* bound: how often the tokens at hand expire
  MaxEnds,      \* bound: sessions that end
  MaxErrors,    \* bound: requests that fail for another reason
  None

VARIABLES
  stored,   \* the auth file: cookie, session, jwt, and whether the jwt is active
  memory,   \* SunoClient.state
  ended,    \* sessions the provider has ended
  call,     \* the request under way
  expiries,
  errors

auth == <<stored, memory, ended>>
clientVars == <<auth, call, expiries, errors>>

Sessions == Cookies

(* jwt: the session it was issued for; active: jwt_state. *)
NoState == [cookie |-> None, session |-> None, jwt |-> None, active |-> FALSE]

Idle == [stage |-> "idle", retry |-> FALSE, sent |-> 0, answer |-> None]

ClientInit ==
  /\ stored = [NoState EXCEPT !.cookie = 1]
  /\ memory = stored
  /\ ended = {}
  /\ call = Idle
  /\ expiries = 0 /\ errors = 0

At(stage) == call.stage = stage

Move(stage) == call' = [call EXCEPT !.stage = stage]

Answer(answer) == call' = [call EXCEPT !.stage = "answered", !.answer = answer]

(* A method of the client is called. *)
Ask == call' = [stage |-> "ensure", retry |-> TRUE, sent |-> 0, answer |-> None]

(* ensure_jwt: a JWT that is missing, expired or about to expire is        *)
(* refreshed before the request.                                           *)
EnsureJwt ==
  /\ At("ensure")
  /\ Move(IF memory.jwt = None \/ ~memory.active THEN "refresh" ELSE "send")
  /\ UNCHANGED <<auth, expiries, errors>>

(* _refresh_session_id, only where no session is stored. *)
RefreshSession ==
  /\ At("refresh") /\ memory.session = None
  /\ IF memory.cookie \in ended
       THEN Answer("auth") /\ UNCHANGED memory
       ELSE memory' = [memory EXCEPT !.session = memory.cookie] /\ UNCHANGED call
  /\ UNCHANGED <<stored, ended, expiries, errors>>

(* Clerk issues a token for a session of the cookie; the client writes its *)
(* whole state to the auth file.                                           *)
RefreshJwt ==
  /\ At("refresh") /\ memory.session # None
  /\ IF memory.session = memory.cookie /\ memory.session \notin ended
       THEN /\ memory' = [memory EXCEPT !.jwt = memory.session, !.active = TRUE]
            /\ stored' = memory'
            /\ Move("send")
       ELSE Answer("auth") /\ UNCHANGED <<stored, memory>>
  /\ UNCHANGED <<ended, expiries, errors>>

Accepted == memory.jwt # None /\ memory.active /\ memory.jwt \notin ended

Reply == call' = [call EXCEPT !.stage = "answered", !.answer = "reply", !.sent = @ + 1]

Denied == call' = [call EXCEPT !.stage = "answered", !.answer = "denied", !.sent = @ + 1]

(* refresh_jwt, then the request once more. *)
Again == call' = [call EXCEPT !.stage = "refresh", !.retry = FALSE, !.sent = @ + 1]

(* The API answers 403 where it denies the resource, too: an error of its own. *)
Refuses ==
  \/ ~Accepted /\ UNCHANGED errors
  \/ Accepted /\ errors < MaxErrors /\ errors' = errors + 1

(* Mutant: a denied request is not sent again. *)
SendOnce ==
  /\ At("send")
  /\ \/ Accepted /\ Reply /\ UNCHANGED errors
     \/ Refuses /\ Denied
  /\ UNCHANGED <<auth, expiries>>

(* _request: 401 and 403 bring one refresh and one more request. *)
Send ==
  /\ At("send")
  /\ \/ Accepted /\ Reply /\ UNCHANGED errors
     \/ call.retry /\ Refuses /\ Again
     \/ ~call.retry /\ Refuses /\ Denied
  /\ UNCHANGED <<auth, expiries>>

(* A transport error, a status of 5xx, or a Clerk that does not answer. *)
RequestFails ==
  /\ call.stage \in {"refresh", "send"} /\ errors < MaxErrors
  /\ errors' = errors + 1
  /\ Answer(IF At("refresh") THEN "auth" ELSE "error")
  /\ UNCHANGED <<auth, expiries>>

Request == EnsureJwt \/ RefreshSession \/ RefreshJwt \/ Send \/ RequestFails

(* Time passes: the tokens issued so far are no longer active.  A token    *)
(* outlives the request it was issued for.                                 *)
Expire ==
  /\ expiries < MaxExpiries
  /\ At("idle") \/ At("ensure") \/ (At("send") /\ call.retry)
  /\ expiries' = expiries + 1
  /\ memory' = [memory EXCEPT !.active = FALSE]
  /\ stored' = [stored EXCEPT !.active = FALSE]
  /\ UNCHANGED <<ended, call, errors>>

EndSession ==
  /\ Cardinality(ended) < MaxEnds
  /\ \E s \in Sessions \ ended : ended' = ended \cup {s}
  /\ UNCHANGED <<stored, memory, call, expiries, errors>>

(* authenticate_suno_cookie_stdin: the user stores the next cookie; the    *)
(* session and the JWT of the file stay.                                   *)
Renew ==
  /\ stored.cookie + 1 \in Cookies
  /\ stored' = [stored EXCEPT !.cookie = @ + 1]
  /\ UNCHANGED <<memory, ended, call, expiries, errors>>

Environment == Expire \/ EndSession \/ Renew
=============================================================================
