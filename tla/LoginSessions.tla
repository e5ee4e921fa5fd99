---------------------------- MODULE LoginSessions ----------------------------
(***************************************************************************)
(* Sessions from the cookie to the store and back: the middleware that     *)
(* finds or creates the session of a request (middleware/session.py), the  *)
(* memory store with its sliding expiry, its throttled purge and its       *)
(* snapshot file (session/store.py, session/mixin.py), and the handlers    *)
(* that dress a session with an identity: the password login, and the two  *)
(* legs of an OIDC login (server_app/oidc_method.py) with the provider     *)
(* between them.                                                           *)
(*                                                                         *)
(* The store is touched on the event loop, so an action is what happens    *)
(* between two awaits.  A request keeps a reference to the live session:   *)
(* it writes to it whether or not the store still has it.  A handler that  *)
(* raises (both OIDC legs end with Redirect) unwinds SessionMiddleware,    *)
(* and ErrorMiddleware, outside it, answers: no cookie and no write-back.  *)
(*                                                                         *)
(* The state and the verifier of an OIDC flow are minted and stored        *)
(* together, so a flow is one value.  `owner`, `loggedOut`, `spent` and    *)
(* `crashes` are history.                                                  *)
(***************************************************************************)
EXTENDS Integers, FiniteSets, Sequences

CONSTANTS
  Browsers,       \* each with its cookie jar; its user is the identity it logs in
  Requests,       \* requests in progress at a time
  Restored,       \* browsers whose sessions the first start restored, a sequence
  Ttl, PurgeInterval,
  MaxNow, MaxRequests, MaxStops,    \* bounds of the instance
  None

ASSUME SessionAssumption ==
  /\ Ttl \in Nat \ {0} /\ PurgeInterval \in Nat /\ None \notin Browsers \cup Nat
  /\ IsFiniteSet(Requests) /\ Restored \in Seq(Browsers)
ASSUME BoundsAssumption == MaxNow \in Nat /\ MaxRequests \in Nat /\ MaxStops \in Nat

VARIABLES
  now, up,
  object,      \* the live sessions, whether stored or only held by a request
  stored,      \* the tokens in MemorySessionStore._sessions
  lastPurge,
  snapshot,    \* what the pickle file holds, by token
  cookie,      \* the session cookie of each browser
  request,     \* what is in progress
  flowOf,      \* the session each OIDC flow was begun on
  owner, loggedOut, spent, received, stops, crashed

store == <<object, stored, lastPurge>>
history == <<owner, loggedOut, spent, received, stops, crashed>>
vars == <<now, up, store, snapshot, cookie, request, flowOf, history>>

Sids == 1..(Len(Restored) + MaxRequests)   \* a request creates at most one session,
Flows == 1..MaxRequests                    \* and begins at most one flow
Session == [root: Browsers \cup {None}, flow: Flows \cup {None}, last: Nat, dirty: BOOLEAN]
Anonymous == [root |-> None, flow |-> None, last |-> now, dirty |-> FALSE]
Idle == [kind |-> "idle"]

Made == {s \in Sids : owner[s] # None}
Begun == {f \in Flows : flowOf[f] # None}
Next1(set) == Cardinality(set) + 1      \* tokens are numbered as they are minted

\* Session.is_expired, with a positive TTL.
Expired(o) == now - o.last > Ttl
\* attach_avatar marks the session dirty.
Dressed(o, b) == [o EXCEPT !.root = b, !.dirty = TRUE]

\* Mutant of Live: a session exactly as old as its time to live is gone.
LiveStrictly == {s \in stored : now - object[s].last < Ttl}

\* purge_expired keeps these.
Live == {s \in stored : ~Expired(object[s])}

(***************************************************************************)
(* SessionMiddleware.__call__                                              *)
(***************************************************************************)
\* get_session: the session the cookie names, unless it expired.
Found(b) == cookie[b] # None /\ cookie[b] \in Live

Reconnects(b) ==
  /\ object' = [object EXCEPT ![cookie[b]].last = now]
  /\ UNCHANGED <<stored, lastPurge, owner>>

\* get dropped an expired session; create purges when that is due, then adds
\* an anonymous one.
PurgeDue == now - lastPurge > PurgeInterval
Creates(b) ==
  LET s == Next1(Made) IN
  /\ stored' = (IF PurgeDue THEN Live ELSE stored \ {cookie[b]}) \cup {s}
  /\ lastPurge' = IF PurgeDue THEN now ELSE lastPurge
  /\ object' = [object EXCEPT ![s] = Anonymous]
  /\ owner' = [owner EXCEPT ![s] = b]

\* Any request; `flow` is the state an OIDC callback echoes: of any flow begun,
\* opened in any browser, a second time too.
Arrives(r) ==
  \E b \in Browsers, k \in {"page", "login", "logout", "start", "callback"}, f \in Begun \cup {None} :
    /\ up /\ request[r] = Idle /\ received < MaxRequests
    /\ k = "callback" <=> f # None
    /\ IF Found(b) THEN Reconnects(b) ELSE Creates(b)
    /\ request' = [request EXCEPT ![r] =
         [kind |-> k, flow |-> f, browser |-> b, new |-> ~Found(b),
          sid |-> IF Found(b) THEN cookie[b] ELSE Next1(Made)]]
    /\ received' = received + 1
    /\ UNCHANGED <<now, up, snapshot, cookie, flowOf, loggedOut, spent, stops, crashed>>

Is(r, kind) == request[r].kind = kind
Goes(r, kind) == request' = [request EXCEPT ![r].kind = kind]
Sid(r) == request[r].sid
Keeps == UNCHANGED <<now, up, stored, lastPurge, snapshot, owner, received, stops, crashed>>

\* Mutant of Answers: the write-back puts the session into the store.
AnswersStoring(r) ==
  /\ Is(r, "page")
  /\ request' = [request EXCEPT ![r] = Idle]
  /\ object' = [object EXCEPT ![Sid(r)].dirty = FALSE]
  /\ stored' = IF object[Sid(r)].dirty THEN stored \cup {Sid(r)} ELSE stored
  /\ UNCHANGED <<now, up, lastPurge, snapshot, cookie, flowOf, history>>

\* The handler returned: the cookie of a new session, and _write_back, whose
\* save is nothing in memory.
Answers(r) ==
  /\ Is(r, "page")
  /\ request' = [request EXCEPT ![r] = Idle]
  /\ cookie' = IF request[r].new THEN [cookie EXCEPT ![request[r].browser] = Sid(r)] ELSE cookie
  /\ object' = [object EXCEPT ![Sid(r)].dirty = FALSE]
  /\ Keeps /\ UNCHANGED <<flowOf, loggedOut, spent>>

\* The handler raised: neither.
Raises(r, o) ==
  /\ request' = [request EXCEPT ![r] = Idle]
  /\ object' = [object EXCEPT ![Sid(r)] = o]
  /\ Keeps /\ UNCHANGED <<cookie, loggedOut>>

Fails(r) ==
  /\ Is(r, "page") /\ UNCHANGED <<flowOf, spent>>
  /\ Raises(r, object[Sid(r)]) \/ Raises(r, [object[Sid(r)] EXCEPT !.dirty = TRUE])

(***************************************************************************)
(* The handlers                                                            *)
(***************************************************************************)
\* login with the right password, on a pool thread.
LogsIn(r) ==
  /\ Is(r, "login") /\ Goes(r, "page")
  /\ object' = [object EXCEPT ![Sid(r)] = Dressed(@, request[r].browser)]
  /\ Keeps /\ UNCHANGED <<cookie, flowOf, loggedOut, spent>>

\* logout(session_id): any session of its own.
LogsOut(r) ==
  /\ Is(r, "logout") /\ Goes(r, "page")
  /\ \E s \in Made : /\ owner[s] = request[r].browser
                     /\ stored' = stored \ {s} /\ loggedOut' = loggedOut \cup {s}
  /\ UNCHANGED <<now, up, object, lastPurge, snapshot, cookie, flowOf, owner, spent, received, stops, crashed>>

\* start, after it awaited discovery: a flow on the session, then Redirect.
OidcStart(r) ==
  /\ Is(r, "start")
  /\ LET f == Next1(Begun) IN
     /\ flowOf' = [flowOf EXCEPT ![f] = Sid(r)]
     /\ Raises(r, [object[Sid(r)] EXCEPT !.flow = f, !.dirty = TRUE])
  /\ UNCHANGED spent

\* Mutant of OidcChecks: the state only has to be some state.
OidcChecksAny(r) ==
  /\ Is(r, "callback") /\ object[Sid(r)].flow # None /\ Goes(r, "exchange")
  /\ Keeps /\ UNCHANGED <<object, cookie, flowOf, loggedOut, spent>>

\* callback: the state must be the one on the session; the code is exchanged
\* and the token verified across awaits.
OidcChecks(r) ==
  /\ Is(r, "callback") /\ object[Sid(r)].flow = request[r].flow /\ Goes(r, "exchange")
  /\ Keeps /\ UNCHANGED <<object, cookie, flowOf, loggedOut, spent>>
OidcMismatch(r) ==
  /\ Is(r, "callback") /\ object[Sid(r)].flow # request[r].flow
  /\ Raises(r, object[Sid(r)]) /\ UNCHANGED <<flowOf, spent>>
OidcRefused(r) ==
  /\ Is(r, "exchange") /\ Raises(r, object[Sid(r)]) /\ UNCHANGED <<flowOf, spent>>

\* The identity is the one that began the flow at the provider; the keys of the
\* flow, or of a newer one, are popped, and the handler ends with Redirect.
OidcAttaches(r) ==
  /\ Is(r, "exchange")
  /\ Raises(r, [Dressed(object[Sid(r)], owner[flowOf[request[r].flow]]) EXCEPT !.flow = None])
  /\ spent' = spent \cup {request[r].flow}
  /\ UNCHANGED flowOf

(***************************************************************************)
(* The clock, and the lifespan: a clean stop saves the snapshot            *)
(***************************************************************************)
Tick ==
  /\ now < MaxNow /\ now' = now + 1
  /\ UNCHANGED <<up, store, snapshot, cookie, request, flowOf, history>>

Stops == up /\ stops < MaxStops /\ stops' = stops + 1 /\ up' = FALSE
Shuts ==
  /\ Stops
  /\ snapshot' = [s \in Live |-> object[s]]
  /\ request' = [r \in Requests |-> Idle] /\ stored' = {}
  /\ UNCHANGED <<now, object, lastPurge, cookie, flowOf, owner, loggedOut, spent, received, crashed>>
Crashes ==
  /\ Stops /\ crashed' = TRUE
  /\ request' = [r \in Requests |-> Idle] /\ stored' = {}
  /\ UNCHANGED <<now, object, lastPurge, snapshot, cookie, flowOf, owner, loggedOut, spent, received>>

\* load_snapshot: the time to live is the only filter.
Starts ==
  /\ ~up /\ up' = TRUE /\ lastPurge' = now
  /\ stored' = {s \in DOMAIN snapshot : ~Expired(snapshot[s])}
  /\ object' = [s \in Sids |-> IF s \in DOMAIN snapshot THEN snapshot[s] ELSE object[s]]
  /\ UNCHANGED <<now, snapshot, cookie, request, flowOf, history>>

Init ==
  /\ now = 0 /\ up = TRUE /\ lastPurge = 0
  /\ stored = DOMAIN Restored /\ snapshot = [s \in stored |-> Anonymous]
  /\ object = [s \in Sids |-> Anonymous]
  /\ cookie = [b \in Browsers |-> IF \E s \in stored : Restored[s] = b
                                THEN CHOOSE s \in stored : Restored[s] = b ELSE None]
  /\ request = [r \in Requests |-> Idle]
  /\ flowOf = [f \in Flows |-> None] /\ owner = [s \in Sids |-> IF s \in stored THEN Restored[s] ELSE None]
  /\ loggedOut = {} /\ spent = {} /\ received = 0 /\ stops = 0 /\ crashed = FALSE

Next ==
  \/ \E r \in Requests :
       \/ Arrives(r) \/ Answers(r) \/ Fails(r) \/ LogsIn(r) \/ LogsOut(r)
       \/ OidcStart(r) \/ OidcChecks(r) \/ OidcMismatch(r) \/ OidcRefused(r) \/ OidcAttaches(r)
  \/ Tick \/ Shuts \/ Crashes \/ Starts

Spec == Init /\ [][Next]_vars
-----------------------------------------------------------------------------
(***************************************************************************)
(* Properties                                                              *)
(***************************************************************************)
\* Every variable stays in its type: what is stored was created, a cookie names
\* a session of its browser.
TypeOK ==
  /\ now \in 0..MaxNow /\ up \in BOOLEAN /\ lastPurge \in 0..now
  /\ object \in [Sids -> Session]
  /\ stored \cup DOMAIN snapshot \subseteq Made
  /\ \A b \in Browsers : cookie[b] # None => owner[cookie[b]] = b
  /\ \A r \in Requests : request[r] # Idle => owner[Sid(r)] = request[r].browser

\* A session speaks for nobody but the user of the browser that holds it, even
\* when a callback is opened in another browser, twice, or across a second
\* `start` (callback of OidcMethod).
SpeaksForItsBrowser == \A s \in Made : object[s].root \in {None, owner[s]}

\* The sessions a request could be given, or could be after a restart.
Kept == IF up THEN stored ELSE DOMAIN snapshot
Held(s) == IF up THEN object[s] ELSE snapshot[s]

\* A session is lost by its own idleness, by logout or by a crash, whatever
\* purge, get, snapshot and restart do; what is kept keeps its identity.
SessionsAreKept ==
  [][\A s \in Kept :
       \/ Expired(Held(s)) \/ s \in loggedOut' \/ crashed'
       \/ s \in Kept' /\ (Held(s).root # None => Held(s)'.root = Held(s).root)]_vars

\* A session that was logged out is never served again, also by a request that
\* holds it still and by a restart, unless the process crashed since: it then
\* starts from the snapshot of the stop before.
LogoutIsFinal == \A s \in loggedOut \cap stored : crashed

\* The state of a completed OIDC login is never accepted again: no session
\* holds it, however the legs of two logins on it interleave.
SpentStateRefused == \A s \in Made : ~crashed => object[s].flow \notin spent

\* A session is its browser's, and a login is used once: both together.
SessionsSpeakTrue == TypeOK /\ SpeaksForItsBrowser /\ SpentStateRefused

\* "In either path the session is written back at request end when dirty."
WrittenBack ==
  \A s \in Made : object[s].dirty => \E r \in Requests : request[r] # Idle /\ Sid(r) = s
=============================================================================
