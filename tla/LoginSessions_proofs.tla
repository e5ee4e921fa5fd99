------------------------ MODULE LoginSessions_proofs ------------------------
(***************************************************************************)
(* For any browsers, requests, restored sessions, times and stops: a       *)
(* session speaks for nobody but the user of its browser, the state of an  *)
(* OIDC login that was completed is not accepted again, a logout is final  *)
(* (both unless the process crashed), and a session that was neither idle  *)
(* nor logged out is kept across purges and restarts.                      *)
(*                                                                         *)
(* What makes them inductive: a flow is on the session it was begun on or  *)
(* on none, a request that exchanges a code holds the flow of its own      *)
(* session, and the snapshot of a clean stop is as true as the store.      *)
(***************************************************************************)
EXTENDS LoginSessions, FiniteSetTheorems, TLAPS

Handlers == {"page", "login", "logout", "start", "callback", "exchange"}
Handling == [kind : Handlers, flow : Flows \cup {None}, browser : Browsers, new : BOOLEAN, sid : Sids]
Starting == {r \in Requests : request[r].kind = "start"}

\* The types, with what each names.
Types ==
  /\ now \in 0 .. MaxNow /\ up \in BOOLEAN /\ lastPurge \in 0 .. now
  /\ object \in [Sids -> Session] /\ owner \in [Sids -> Browsers \cup {None}]
  /\ flowOf \in [Flows -> Sids \cup {None}] /\ request \in [Requests -> {Idle} \cup Handling]
  /\ cookie \in [Browsers -> Sids \cup {None}]
  /\ stored \subseteq Made /\ DOMAIN snapshot \subseteq Made /\ loggedOut \subseteq Made
  /\ spent \subseteq Begun /\ received \in 0 .. MaxRequests /\ crashed \in BOOLEAN
  /\ \A s \in DOMAIN snapshot : snapshot[s] \in Session

\* Tokens are numbered from 1, sessions and flows, with room for one more for
\* each request that may still come.
Numbered ==
  /\ \E m \in Nat : Made = 1 .. m /\ m <= Len(Restored) + received
  /\ \E k \in Nat : Begun = 1 .. k /\ k + Cardinality(Starting) <= received

\* What a browser and a request hold is theirs.
Holding ==
  /\ \A b \in Browsers : cookie[b] # None => cookie[b] \in Made /\ owner[cookie[b]] = b
  /\ \A r \in Requests : request[r] # Idle => Sid(r) \in Made /\ owner[Sid(r)] = request[r].browser
  /\ \A r \in Requests : request[r].kind \in {"callback", "exchange"} => request[r].flow \in Begun
  /\ \A r \in Requests : Is(r, "exchange") => flowOf[request[r].flow] = Sid(r)
  /\ ~up => \A r \in Requests : request[r] = Idle

\* A session o, numbered s: its identity, and the flow on it.
Honest(s, o) ==
  o.root \in {None, owner[s]} /\ (o.flow # None => o.flow \in Begun /\ flowOf[o.flow] = s)
Honesty ==
  /\ \A s \in Made : Honest(s, object[s])
  /\ \A s \in DOMAIN snapshot : Honest(s, snapshot[s])

\* Until a crash, nothing spent and nobody logged out is in the store, nor in
\* the snapshot while the process is down.
Final ==
  ~crashed =>
    /\ stored \cap loggedOut = {} /\ \A s \in Made : object[s].flow \notin spent
    /\ ~up => /\ DOMAIN snapshot \cap loggedOut = {}
              /\ \A s \in DOMAIN snapshot : snapshot[s].flow \notin spent

IInv == Types /\ Numbered /\ Holding /\ Honesty /\ Final

-----------------------------------------------------------------------------
(* Names, and requests. *)

\* None is nothing that is named; a request in progress is not idle.
LEMMA Names ==
  /\ None \notin Browsers /\ None \notin Sids /\ None \notin Flows /\ None \notin Made
  /\ Sids \subseteq Nat /\ Flows \subseteq Nat /\ Made \subseteq Sids /\ Begun \subseteq Flows
  /\ None \notin Begun
  /\ \A h \in Handling : h # Idle /\ h.kind # "idle" /\ h.kind \in Handlers
  /\ Idle.kind = "idle"
<1>1. Len(Restored) \in Nat BY SessionAssumption
<1>2. Sids \subseteq Nat /\ Flows \subseteq Nat BY <1>1, BoundsAssumption DEF Sids, Flows
<1>3. Idle.kind = "idle" BY DEF Idle
<1>4. \A h \in Handling : h.kind # "idle" /\ h.kind \in Handlers BY DEF Handling, Handlers
<1> QED BY <1>2, <1>3, <1>4, SessionAssumption DEF Made, Begun

\* Fewer requests wait to begin a flow.
LEMMA FewerStart ==
  ASSUME IInv, Starting' \subseteq Starting, UNCHANGED <<owner, flowOf>>, received' >= received,
         received' \in Nat
  PROVE  Numbered'
<1>1. IsFiniteSet(Starting) BY SessionAssumption, FS_Subset DEF Starting
<1>2. Cardinality(Starting') <= Cardinality(Starting) BY <1>1, FS_Subset
<1>3. Cardinality(Starting) \in Nat /\ Cardinality(Starting') \in Nat
  BY <1>1, FS_Subset, FS_CardinalityType
<1>4. Made' = Made /\ Begun' = Begun BY DEF Made, Begun
<1>5. received \in Nat /\ Len(Restored) \in Nat BY SessionAssumption, BoundsAssumption DEF IInv, Types
<1> QED BY <1>2, <1>3, <1>4, <1>5 DEF IInv, Numbered

\* The step of a request that is in progress: it writes to its session, it may
\* hand out the cookie, it may spend its flow.
LEMMA HandledHolds ==
  ASSUME IInv, NEW r \in Requests, request[r] \in Handling,
         NEW o \in Session, o.root \in {None, owner[Sid(r)]}, o.flow \in {None, object[Sid(r)].flow},
         object' = [object EXCEPT ![Sid(r)] = o],
         NEW q, \/ q = Idle \/ q = [request[r] EXCEPT !.kind = "page"]
                \/ /\ q = [request[r] EXCEPT !.kind = "exchange"]
                   /\ Is(r, "callback") /\ object[Sid(r)].flow = request[r].flow,
         request' = [request EXCEPT ![r] = q],
         cookie' \in {cookie, [cookie EXCEPT ![request[r].browser] = Sid(r)]},
         Keeps, UNCHANGED <<flowOf, loggedOut>>,
         \/ spent' = spent
         \/ spent' = spent \cup {request[r].flow} /\ Is(r, "exchange") /\ o.flow = None
  PROVE  IInv'
<1> USE Names DEF IInv, Keeps
<1>1. Made' = Made /\ Begun' = Begun BY DEF Made, Begun
<1>2. Sid(r) \in Made /\ owner[Sid(r)] = request[r].browser /\ request[r].browser \in Browsers /\ up
  BY DEF Holding, Handling, Types
<1>3. /\ q = Idle \/ (q \in Handling /\ q.kind \in {"page", "exchange"})
      /\ q # Idle => q.sid = Sid(r) /\ q.browser = request[r].browser /\ q.flow = request[r].flow
      /\ q.kind = "exchange" => Is(r, "callback") /\ object[Sid(r)].flow = request[r].flow
  <2>1. CASE q = Idle BY <2>1
  <2>2. CASE q = [request[r] EXCEPT !.kind = "page"]
    BY <2>2 DEF Handling, Handlers, Sid
  <2>3. CASE q = [request[r] EXCEPT !.kind = "exchange"]
    BY <2>3 DEF Handling, Handlers, Sid
  <2> QED BY <2>1, <2>2, <2>3
<1>4. \A t \in Requests : request'[t] = IF t = r THEN q ELSE request[t] BY DEF Types
<1>5. \A s \in Sids : object'[s] = IF s = Sid(r) THEN o ELSE object[s] BY DEF Types
<1>6. spent' \subseteq Begun
  <2>1. Is(r, "exchange") => request[r].flow \in Begun BY DEF Holding, Is
  <2> QED BY <2>1 DEF Types
<1>7. Types'
  <2>1. object' \in [Sids -> Session] BY <1>2 DEF Types
  <2>2. request' \in [Requests -> {Idle} \cup Handling] BY <1>3 DEF Types
  <2>3. cookie' \in [Browsers -> Sids \cup {None}] BY <1>2 DEF Types
  <2> QED BY <1>1, <1>6, <2>1, <2>2, <2>3 DEF Types
<1>8. Numbered'
  <2>1. Starting' \subseteq Starting BY <1>3, <1>4 DEF Starting
  <2>2. received' \in Nat /\ received' >= received BY BoundsAssumption DEF Types
  <2> QED BY <2>1, <2>2, FewerStart
<1>9. Holding'
  <2>1. \A b \in Browsers : cookie'[b] # None => cookie'[b] \in Made' /\ owner'[cookie'[b]] = b
    <3>1. \A b \in Browsers : cookie'[b] = cookie[b] \/ (b = request[r].browser /\ cookie'[b] = Sid(r))
      BY <1>2 DEF Types
    <3> QED BY <1>1, <1>2, <3>1 DEF Holding
  <2>2. \A t \in Requests : request'[t] # Idle => Sid(t)' \in Made' /\ owner'[Sid(t)'] = request'[t].browser
    BY <1>1, <1>2, <1>3, <1>4 DEF Holding, Sid
  <2>3. \A t \in Requests : request'[t].kind \in {"callback", "exchange"} => request'[t].flow \in Begun'
    BY <1>1, <1>3, <1>4 DEF Holding, Is
  <2>4. \A t \in Requests : Is(t, "exchange")' => flowOf'[request'[t].flow] = Sid(t)'
    <3>1. ASSUME q.kind = "exchange" PROVE flowOf[q.flow] = Sid(r) /\ q.sid = Sid(r)
      <4>1. request[r].flow \in Begun BY <1>3, <3>1 DEF Holding, Is
      <4>2. Honest(Sid(r), object[Sid(r)]) BY <1>2 DEF Honesty
      <4> QED BY <1>3, <3>1, <4>1, <4>2 DEF Honest
    <3> QED BY <1>4, <3>1 DEF Holding, Is, Sid
  <2> QED BY <1>2, <2>1, <2>2, <2>3, <2>4 DEF Holding
<1>10. Honesty'
  <2>1. Honest(Sid(r), o)
    BY <1>2 DEF Honesty, Honest
  <2>2. \A s \in Made : Honest(s, object'[s]) BY <1>5, <2>1 DEF Honesty
  <2>3. \A s, x : Honest(s, x)' <=> Honest(s, x)
    BY <1>1 DEF Honest
  <2> QED BY <1>1, <2>2, <2>3 DEF Honesty, Honest
<1>11. Final'
  <2>1. ASSUME ~crashed, NEW s \in Made PROVE object'[s].flow \notin spent'
    <3>1. object[s].flow \notin spent /\ object[Sid(r)].flow \notin spent BY <1>2, <2>1 DEF Final
    <3>2. CASE s = Sid(r) BY <1>2, <1>5, <1>6, <3>1, <3>2 DEF Types
    <3>3. CASE s # Sid(r)
      <4>1. object'[s] = object[s] BY <1>5, <3>3
      <4>2. Is(r, "exchange") => object[s].flow # request[r].flow
        BY <3>3 DEF Holding, Is, Honesty, Honest
      <4> QED BY <3>1, <4>1, <4>2
    <3> QED BY <3>2, <3>3
  <2> QED BY <1>1, <1>2, <2>1 DEF Final
<1> QED BY <1>7, <1>8, <1>9, <1>10, <1>11

\* A request that is at some handler is in progress, on a session of its browser.
LEMMA AtHandler ==
  ASSUME IInv, NEW r \in Requests, request[r].kind # "idle"
  PROVE  /\ request[r] \in Handling /\ Sid(r) \in Made /\ owner[Sid(r)] = request[r].browser
         /\ request[r].browser \in Browsers /\ object[Sid(r)] \in Session
         /\ object[Sid(r)].root \in {None, owner[Sid(r)]} /\ up
<1> USE Names DEF IInv
<1>1. request[r] \in Handling BY DEF Types
<1>2. Sid(r) \in Made /\ owner[Sid(r)] = request[r].browser /\ up BY <1>1 DEF Holding
<1>3. request[r].browser \in Browsers BY <1>1 DEF Handling
<1>4. object[Sid(r)] \in Session BY <1>2 DEF Types
<1>5. object[Sid(r)].root \in {None, owner[Sid(r)]} BY <1>2 DEF Honesty, Honest
<1> QED BY <1>1, <1>2, <1>3, <1>4, <1>5

\* What handlers write to a session.
LEMMA Written ==
  ASSUME NEW o \in Session, NEW b \in Browsers
  PROVE  /\ [o EXCEPT !.dirty = TRUE] \in Session /\ [o EXCEPT !.dirty = TRUE].root = o.root
         /\ [o EXCEPT !.dirty = TRUE].flow = o.flow
         /\ [o EXCEPT !.dirty = FALSE] \in Session /\ [o EXCEPT !.dirty = FALSE].root = o.root
         /\ [o EXCEPT !.dirty = FALSE].flow = o.flow
         /\ Dressed(o, b) \in Session /\ Dressed(o, b).root = b /\ Dressed(o, b).flow = o.flow
         /\ [Dressed(o, b) EXCEPT !.flow = None] \in Session
         /\ [Dressed(o, b) EXCEPT !.flow = None].root = b
         /\ [Dressed(o, b) EXCEPT !.flow = None].flow = None
BY DEF Session, Dressed

-----------------------------------------------------------------------------
(* The steps of a request in progress. *)

\* It is answered.
LEMMA AnswersHolds ==
  ASSUME IInv, NEW r \in Requests, Answers(r)
  PROVE  IInv'
<1>1. Is(r, "page") BY DEF Answers
<1>2. request[r] \in Handling /\ request[r].browser \in Browsers /\ object[Sid(r)] \in Session
      /\ object[Sid(r)].root \in {None, owner[Sid(r)]}
  BY <1>1, AtHandler DEF Is
<1>3. PICK o \in Session : o = [object[Sid(r)] EXCEPT !.dirty = FALSE] BY <1>2, Written
<1>4. o.root = object[Sid(r)].root /\ o.flow = object[Sid(r)].flow BY <1>2, <1>3, Written
<1>5. object' = [object EXCEPT ![Sid(r)] = o] BY <1>3 DEF Answers
<1>6. /\ request' = [request EXCEPT ![r] = Idle] /\ Keeps /\ UNCHANGED <<flowOf, loggedOut, spent>>
      /\ cookie' \in {cookie, [cookie EXCEPT ![request[r].browser] = Sid(r)]}
  BY DEF Answers
<1> QED BY <1>2, <1>4, <1>5, <1>6, HandledHolds

\* A handler raises, leaving o on the session.
LEMMA RaisesHolds ==
  ASSUME IInv, NEW r \in Requests, request[r].kind # "idle",
         NEW o \in Session, o.root \in {None, owner[Sid(r)]}, o.flow \in {None, object[Sid(r)].flow},
         Raises(r, o), UNCHANGED flowOf,
         \/ spent' = spent
         \/ spent' = spent \cup {request[r].flow} /\ Is(r, "exchange") /\ o.flow = None
  PROVE  IInv'
<1>1. request[r] \in Handling BY AtHandler
<1>2. /\ object' = [object EXCEPT ![Sid(r)] = o] /\ request' = [request EXCEPT ![r] = Idle]
      /\ Keeps /\ cookie' \in {cookie, [cookie EXCEPT ![request[r].browser] = Sid(r)]}
      /\ UNCHANGED <<flowOf, loggedOut>>
  BY DEF Raises
<1> QED BY <1>1, <1>2, HandledHolds

\* It fails.
LEMMA FailsHolds ==
  ASSUME IInv, NEW r \in Requests, Fails(r)
  PROVE  IInv'
<1>1. request[r].kind # "idle" BY DEF Fails, Is
<1>2. /\ object[Sid(r)] \in Session /\ object[Sid(r)].root \in {None, owner[Sid(r)]}
      /\ request[r].browser \in Browsers
  BY <1>1, AtHandler
<1>3. CASE Raises(r, object[Sid(r)]) BY <1>1, <1>2, <1>3, RaisesHolds DEF Fails
<1>4. CASE Raises(r, [object[Sid(r)] EXCEPT !.dirty = TRUE])
  <2>1. PICK o \in Session : o = [object[Sid(r)] EXCEPT !.dirty = TRUE] BY <1>2, Written
  <2>2. o.root = object[Sid(r)].root /\ o.flow = object[Sid(r)].flow BY <1>2, <2>1, Written
  <2> QED BY <1>1, <1>2, <1>4, <2>1, <2>2, RaisesHolds DEF Fails
<1> QED BY <1>3, <1>4 DEF Fails

\* A password login.
LEMMA LogsInHolds ==
  ASSUME IInv, NEW r \in Requests, LogsIn(r)
  PROVE  IInv'
<1>1. request[r].kind # "idle" BY DEF LogsIn, Is
<1>2. /\ request[r] \in Handling /\ request[r].browser \in Browsers /\ object[Sid(r)] \in Session
      /\ owner[Sid(r)] = request[r].browser
  BY <1>1, AtHandler
<1>3. PICK o \in Session : o = Dressed(object[Sid(r)], request[r].browser) BY <1>2, Written
<1>4. o.root = owner[Sid(r)] /\ o.flow = object[Sid(r)].flow BY <1>2, <1>3, Written
<1>5. object' = [object EXCEPT ![Sid(r)] = o] BY <1>3 DEF LogsIn
<1>6. PICK q : q = [request[r] EXCEPT !.kind = "page"] OBVIOUS
<1>7. /\ request' = [request EXCEPT ![r] = q] /\ Keeps /\ UNCHANGED <<flowOf, loggedOut, spent>>
      /\ cookie' \in {cookie, [cookie EXCEPT ![request[r].browser] = Sid(r)]}
  BY <1>6 DEF LogsIn, Goes
<1> QED BY <1>2, <1>4, <1>5, <1>6, <1>7, HandledHolds

\* The callback of an OIDC login, with the state that is on the session.
LEMMA OidcChecksHolds ==
  ASSUME IInv, NEW r \in Requests, OidcChecks(r)
  PROVE  IInv'
<1>1. request[r].kind # "idle" /\ Is(r, "callback") /\ object[Sid(r)].flow = request[r].flow
  BY DEF OidcChecks, Is
<1>2. request[r] \in Handling /\ object[Sid(r)] \in Session
      /\ object[Sid(r)].root \in {None, owner[Sid(r)]}
  BY <1>1, AtHandler
<1>3. PICK o \in Session : o = object[Sid(r)] BY <1>2
<1>4. object' = [object EXCEPT ![Sid(r)] = o] BY <1>3 DEF OidcChecks, IInv, Types
<1>5. PICK q : q = [request[r] EXCEPT !.kind = "exchange"] OBVIOUS
<1>6. /\ request' = [request EXCEPT ![r] = q] /\ Keeps /\ UNCHANGED <<flowOf, loggedOut, spent>>
      /\ cookie' \in {cookie, [cookie EXCEPT ![request[r].browser] = Sid(r)]}
  BY <1>5 DEF OidcChecks, Goes
<1> QED BY <1>1, <1>2, <1>3, <1>4, <1>5, <1>6, HandledHolds

\* With another one, and when the provider refuses the code.
LEMMA OidcFailsHolds ==
  ASSUME IInv, NEW r \in Requests, OidcMismatch(r) \/ OidcRefused(r)
  PROVE  IInv'
<1>1. /\ request[r].kind # "idle" /\ Raises(r, object[Sid(r)]) /\ UNCHANGED <<flowOf, spent>>
  BY DEF OidcMismatch, OidcRefused, Is
<1>2. object[Sid(r)] \in Session /\ object[Sid(r)].root \in {None, owner[Sid(r)]} BY <1>1, AtHandler
<1> QED BY <1>1, <1>2, RaisesHolds

\* The login is completed: the identity is that of the browser that began it,
\* which is the one that ends it.
LEMMA OidcAttachesHolds ==
  ASSUME IInv, NEW r \in Requests, OidcAttaches(r)
  PROVE  IInv'
<1>1. request[r].kind # "idle" /\ Is(r, "exchange") BY DEF OidcAttaches, Is
<1>2. object[Sid(r)] \in Session /\ request[r].browser \in Browsers /\ owner[Sid(r)] = request[r].browser
  BY <1>1, AtHandler
<1>3. owner[flowOf[request[r].flow]] = owner[Sid(r)] BY <1>1 DEF IInv, Holding
<1>4. PICK o \in Session : o = [Dressed(object[Sid(r)], owner[Sid(r)]) EXCEPT !.flow = None]
  BY <1>2, Written
<1>5. o.root = owner[Sid(r)] /\ o.flow = None BY <1>2, <1>4, Written
<1>6. Raises(r, o) /\ UNCHANGED flowOf /\ spent' = spent \cup {request[r].flow}
  BY <1>3, <1>4 DEF OidcAttaches
<1> QED BY <1>1, <1>5, <1>6, RaisesHolds

\* A logout of any session of the browser.
LEMMA LogsOutHolds ==
  ASSUME IInv, NEW r \in Requests, LogsOut(r)
  PROVE  IInv'
<1> USE Names DEF IInv, LogsOut
<1>1. Made' = Made /\ Begun' = Begun BY DEF Made, Begun
<1>2. /\ request[r] \in Handling /\ Sid(r) \in Made /\ owner[Sid(r)] = request[r].browser
      /\ request[r].browser \in Browsers /\ up
  BY AtHandler DEF Is
<1>3a. PICK q : q = [request[r] EXCEPT !.kind = "page"] OBVIOUS
<1>3b. q \in Handling /\ q.kind = "page" /\ q.sid = Sid(r) /\ q.browser = request[r].browser
  BY <1>2, <1>3a DEF Handling, Handlers, Sid
<1>3. request' = [request EXCEPT ![r] = q] /\ q \in Handling /\ q.kind = "page" /\ q.sid = Sid(r)
      /\ q.browser = request[r].browser
  BY <1>3a, <1>3b DEF Goes
<1>4. \A t \in Requests : request'[t] = IF t = r THEN q ELSE request[t] BY <1>3 DEF Types
<1>5. request' \in [Requests -> {Idle} \cup Handling] BY <1>3 DEF Types
<1>6. PICK s \in Made : stored' = stored \ {s} /\ loggedOut' = loggedOut \cup {s} OBVIOUS
<1>7. Types' BY <1>1, <1>5, <1>6 DEF Types
<1>8. Numbered'
  <2>1. Starting' \subseteq Starting BY <1>3, <1>4 DEF Starting
  <2> QED BY <2>1, BoundsAssumption, FewerStart DEF Types
<1>9. Holding'
  <2>1. \A t \in Requests : request'[t] # Idle => Sid(t)' \in Made' /\ owner'[Sid(t)'] = request'[t].browser
    BY <1>1, <1>2, <1>3, <1>4 DEF Holding, Sid
  <2>2. \A t \in Requests : request'[t].kind \in {"callback", "exchange"} => request'[t].flow \in Begun'
    BY <1>1, <1>3, <1>4 DEF Holding
  <2>3. \A t \in Requests : Is(t, "exchange")' => flowOf'[request'[t].flow] = Sid(t)'
    BY <1>3, <1>4 DEF Holding, Is, Sid
  <2> QED BY <1>1, <1>2, <2>1, <2>2, <2>3 DEF Holding
<1>10. Honesty' BY <1>1 DEF Honesty, Honest
<1>11. Final' BY <1>1, <1>2, <1>6 DEF Final
<1> QED BY <1>7, <1>8, <1>9, <1>10, <1>11

-----------------------------------------------------------------------------
(* The steps that mint a token. *)

\* The next token, of a session and of a flow.
LEMMA NextToken ==
  ASSUME NEW S, NEW m \in Nat, S = 1 .. m
  PROVE  Next1(S) = m + 1 /\ Next1(S) \notin S /\ S \cup {Next1(S)} = 1 .. m + 1
<1>1. Cardinality(S) = m BY FS_Interval
<1> QED BY <1>1 DEF Next1

\* The start of an OIDC login: a new flow, on the session of the request.
LEMMA OidcStartHolds ==
  ASSUME IInv, NEW r \in Requests, OidcStart(r)
  PROVE  IInv'
<1> USE Names DEF IInv, Keeps
<1>1. request[r].kind = "start" /\ request[r].kind # "idle" BY DEF OidcStart, Is
<1>2. /\ request[r] \in Handling /\ Sid(r) \in Made /\ owner[Sid(r)] = request[r].browser
      /\ object[Sid(r)] \in Session /\ object[Sid(r)].root \in {None, owner[Sid(r)]} /\ up
  BY <1>1, AtHandler
<1>3. PICK k \in Nat : Begun = 1 .. k /\ k + Cardinality(Starting) <= received BY DEF Numbered
<1>4. PICK f : f = Next1(Begun) OBVIOUS
<1>5. f = k + 1 /\ f \notin Begun BY <1>3, <1>4, NextToken
<1>6. /\ IsFiniteSet(Starting) /\ r \in Starting /\ Cardinality(Starting) \in Nat
      /\ Cardinality(Starting \ {r}) = Cardinality(Starting) - 1
      /\ Cardinality(Starting \ {r}) \in Nat
  <2>1. IsFiniteSet(Starting) /\ r \in Starting
    BY <1>1, SessionAssumption, FS_Subset DEF Starting
  <2> QED BY <2>1, FS_RemoveElement, FS_CardinalityType
<1>7. received \in 0 .. MaxRequests /\ f \in Flows
  <2>1. received \in 0 .. MaxRequests BY DEF Types
  <2> QED BY <1>3, <1>5, <1>6, <2>1, BoundsAssumption DEF Flows
<1>8. PICK o : o = [object[Sid(r)] EXCEPT !.flow = f, !.dirty = TRUE] OBVIOUS
<1>9. o \in Session /\ o.root = object[Sid(r)].root /\ o.flow = f
  BY <1>2, <1>7, <1>8 DEF Session
<1>10. /\ flowOf' = [flowOf EXCEPT ![f] = Sid(r)] /\ object' = [object EXCEPT ![Sid(r)] = o]
       /\ request' = [request EXCEPT ![r] = Idle] /\ Keeps /\ UNCHANGED <<cookie, loggedOut, spent>>
  BY <1>4, <1>8 DEF OidcStart, Raises
<1>11. Made' = Made BY <1>10 DEF Made
<1>12. /\ \A g \in Flows : flowOf'[g] = IF g = f THEN Sid(r) ELSE flowOf[g]
       /\ flowOf' \in [Flows -> Sids \cup {None}]
  BY <1>2, <1>10 DEF Types
<1>13. Begun' = Begun \cup {f} BY <1>2, <1>7, <1>12 DEF Begun
<1>14. \A t \in Requests : request'[t] = IF t = r THEN Idle ELSE request[t] BY <1>10 DEF Types
<1>15. \A s \in Sids : object'[s] = IF s = Sid(r) THEN o ELSE object[s] BY <1>10 DEF Types
<1>16. Types'
  <2>1. object' \in [Sids -> Session] BY <1>2, <1>9, <1>10 DEF Types
  <2>2. request' \in [Requests -> {Idle} \cup Handling] BY <1>10 DEF Types
  <2> QED BY <1>10, <1>11, <1>12, <1>13, <2>1, <2>2 DEF Types
<1>17. Numbered'
  <2>1. Starting' = Starting \ {r} BY <1>14 DEF Starting
  <2>2. Begun' = 1 .. k + 1 BY <1>3, <1>4, <1>13, NextToken
  <2>3. (k + 1) + Cardinality(Starting \ {r}) <= received BY <1>3, <1>6, <1>7
  <2>4. k + 1 \in Nat OBVIOUS
  <2>5. \E n \in Nat : Begun' = 1 .. n /\ n + Cardinality(Starting') <= received'
    BY <1>10, <2>1, <2>2, <2>3, <2>4
  <2> QED BY <1>10, <1>11, <2>5 DEF Numbered
<1>18. Holding'
  <2>1. \A t \in Requests : request'[t] # Idle => Sid(t)' \in Made' /\ owner'[Sid(t)'] = request'[t].browser
    BY <1>10, <1>11, <1>14 DEF Holding, Sid
  <2>2. \A t \in Requests : request'[t].kind \in {"callback", "exchange"} => request'[t].flow \in Begun'
    BY <1>13, <1>14 DEF Holding
  <2>3. \A t \in Requests : Is(t, "exchange")' => flowOf'[request'[t].flow] = Sid(t)'
    <3>1. SUFFICES ASSUME NEW t \in Requests, request'[t].kind = "exchange"
                   PROVE  flowOf'[request'[t].flow] = request'[t].sid
      BY DEF Is, Sid
    <3>2. t # r /\ request'[t] = request[t] /\ request[t].flow \in Begun
      BY <1>14, <3>1 DEF Holding
    <3>3. flowOf'[request[t].flow] = flowOf[request[t].flow] BY <1>5, <1>12, <3>2
    <3> QED BY <3>1, <3>2, <3>3 DEF Holding, Is, Sid
  <2> QED BY <1>2, <1>10, <1>11, <2>1, <2>2, <2>3 DEF Holding
<1>19. \A s, x : Honest(s, x) => Honest(s, x)'
  <2>1. \A g \in Begun : g \in Begun' /\ flowOf'[g] = flowOf[g] BY <1>5, <1>12, <1>13
  <2> QED BY <1>10, <2>1 DEF Honest
<1>20. Honesty'
  <2>1. PICK at : at = Sid(r) OBVIOUS
  <2>2. Honest(at, o)' BY <1>2, <1>7, <1>9, <1>10, <1>12, <1>13, <2>1 DEF Honest
  <2>3. ASSUME NEW s \in Made PROVE Honest(s, object[s])'
    <3>1. object'[s] = IF s = at THEN o ELSE object[s] BY <1>15, <2>1
    <3>2. CASE s = at BY <2>2, <3>1, <3>2 DEF Honest
    <3>3. CASE s # at
      <4>1. PICK x : x = object[s] OBVIOUS
      <4>2. Honest(s, x)' /\ object'[s] = x BY <1>19, <3>1, <3>3, <4>1 DEF Honesty
      <4> QED BY <4>2 DEF Honest
    <3> QED BY <3>2, <3>3
  <2>4. \A s \in Made' : Honest(s, object[s])' BY <1>11, <2>3
  <2>5. \A s \in DOMAIN snapshot' : Honest(s, snapshot[s])' BY <1>10, <1>19 DEF Honesty, Honest
  <2> QED BY <2>4, <2>5 DEF Honesty
<1>21. Final'
  <2>1. f \notin spent BY <1>5 DEF Types
  <2> QED BY <1>2, <1>9, <1>10, <1>11, <1>15, <2>1 DEF Final
<1> QED BY <1>16, <1>17, <1>18, <1>20, <1>21

\* The session of a request: the one its cookie names, or a new one.
Given(b) == IF Found(b) THEN cookie[b] ELSE Next1(Made)

\* What the middleware leaves: the session is of the browser, and the others
\* are what they were, in the store or expired.
Gives(b, s) ==
  /\ s \in Sids /\ Made' = Made \cup {s} /\ owner' \in [Sids -> Browsers \cup {None}]
  /\ owner'[s] = b /\ \A t \in Made : owner'[t] = owner[t]
  /\ object' \in [Sids -> Session]
  /\ \A t \in Made : object'[t].root = object[t].root /\ object'[t].flow = object[t].flow
  /\ s \notin Made => object'[s].root = None /\ object'[s].flow = None
  /\ stored' \subseteq stored \cup {s} /\ lastPurge' \in 0 .. now
  /\ \A t \in stored : t \in stored' \/ Expired(object[t])
  /\ s \in Made \/ s \notin loggedOut
  /\ s \in Made => s \in stored

LEMMA MiddlewareGives ==
  ASSUME IInv, NEW b \in Browsers, received < MaxRequests,
         IF Found(b) THEN Reconnects(b) ELSE Creates(b)
  PROVE  /\ Gives(b, Given(b))
         /\ \E m \in Nat : Made' = 1 .. m /\ m <= Len(Restored) + (received + 1)
<1> USE Names DEF IInv
<1>0. PICK m \in Nat : Made = 1 .. m /\ m <= Len(Restored) + received BY DEF Numbered
<1>1. now \in Nat /\ received \in Nat /\ Len(Restored) \in Nat /\ lastPurge \in 0 .. now
  BY SessionAssumption, BoundsAssumption DEF Types
<1>2. CASE Found(b) /\ Reconnects(b)
  <2>1. PICK s : s = cookie[b] OBVIOUS
  <2>2. /\ Given(b) = s /\ s \in Live /\ s # None /\ object' = [object EXCEPT ![s].last = now]
        /\ UNCHANGED <<stored, lastPurge, owner>>
    BY <1>2, <2>1 DEF Given, Found, Reconnects
  <2>3. s \in stored /\ s \in Made /\ owner[s] = b BY <2>1, <2>2 DEF Live, Holding, Types
  <2>4. Made' = Made \cup {s} BY <2>2, <2>3 DEF Made
  <2>5. object[s] \in Session BY <2>3 DEF Types
  <2>6. /\ [object[s] EXCEPT !.last = now] \in Session
        /\ [object[s] EXCEPT !.last = now].root = object[s].root
        /\ [object[s] EXCEPT !.last = now].flow = object[s].flow
    BY <1>1, <2>5 DEF Session
  <2>7. \A t \in Sids : object'[t] = IF t = s THEN [object[s] EXCEPT !.last = now] ELSE object[t]
    BY <2>2 DEF Types
  <2>8. object' \in [Sids -> Session] BY <2>2, <2>6 DEF Types
  <2>9. Gives(b, s) BY <1>1, <2>2, <2>3, <2>4, <2>6, <2>7, <2>8 DEF Gives, Types
  <2>10. Made' = 1 .. m /\ m <= Len(Restored) + (received + 1) BY <1>0, <1>1, <2>3, <2>4
  <2> QED BY <2>2, <2>9, <2>10
<1>3. CASE ~Found(b) /\ Creates(b)
  <2>1. PICK s : s = Next1(Made) OBVIOUS
  <2>2. /\ Given(b) = s /\ owner' = [owner EXCEPT ![s] = b] /\ object' = [object EXCEPT ![s] = Anonymous]
        /\ stored' = (IF PurgeDue THEN Live ELSE stored \ {cookie[b]}) \cup {s}
        /\ lastPurge' \in {now, lastPurge}
    BY <1>3, <2>1 DEF Given, Creates
  <2>3. s = m + 1 /\ s \notin Made /\ Made \cup {s} = 1 .. m + 1 BY <1>0, <2>1, NextToken
  <2>4. s \in Sids BY <1>0, <1>1, <2>3, BoundsAssumption DEF Sids
  <2>5. /\ \A t \in Sids : owner'[t] = IF t = s THEN b ELSE owner[t]
        /\ owner' \in [Sids -> Browsers \cup {None}]
    BY <2>2 DEF Types
  <2>6. Made' = Made \cup {s} BY <2>4, <2>5 DEF Made
  <2>7. Anonymous \in Session /\ Anonymous.root = None /\ Anonymous.flow = None
    BY <1>1 DEF Anonymous, Session
  <2>8. \A t \in Sids : object'[t] = IF t = s THEN Anonymous ELSE object[t] BY <2>2 DEF Types
  <2>9. object' \in [Sids -> Session] BY <2>2, <2>7 DEF Types
  <2>10. \A t \in stored : t \in stored' \/ Expired(object[t])
    <3>1. \A t \in stored : t # None BY DEF Types
    <3>2. \A t \in stored : t = cookie[b] => Expired(object[t]) BY <1>3, <3>1 DEF Found, Live
    <3> QED BY <2>2, <3>2 DEF Live
  <2>11. stored' \subseteq stored \cup {s} /\ lastPurge' \in 0 .. now BY <1>1, <2>2 DEF Live
  <2>12. s \notin loggedOut BY <2>3 DEF Types
  <2>13. Gives(b, s)
    BY <2>3, <2>4, <2>5, <2>6, <2>7, <2>8, <2>9, <2>10, <2>11, <2>12 DEF Gives
  <2>14. m + 1 \in Nat /\ Made' = 1 .. m + 1 /\ m + 1 <= Len(Restored) + (received + 1)
    BY <1>0, <1>1, <2>3, <2>6
  <2> QED BY <2>2, <2>13, <2>14
<1> QED BY <1>2, <1>3

\* A request arrives.
LEMMA ArrivesHolds ==
  ASSUME IInv, NEW r \in Requests, Arrives(r)
  PROVE  IInv'
<1> USE Names DEF IInv
<1>1. PICK b \in Browsers, k \in {"page", "login", "logout", "start", "callback"}, f \in Begun \cup {None} :
         /\ up /\ request[r] = Idle /\ received < MaxRequests
         /\ k = "callback" <=> f # None
         /\ IF Found(b) THEN Reconnects(b) ELSE Creates(b)
         /\ request' = [request EXCEPT ![r] =
              [kind |-> k, flow |-> f, browser |-> b, new |-> ~Found(b),
               sid |-> IF Found(b) THEN cookie[b] ELSE Next1(Made)]]
         /\ received' = received + 1
         /\ UNCHANGED <<now, up, snapshot, cookie, flowOf, loggedOut, spent, stops, crashed>>
  BY DEF Arrives
<1>2. PICK s : s = Given(b) OBVIOUS
<1>3. Gives(b, s) BY <1>1, <1>2, MiddlewareGives
<1>4. PICK q : q = [kind |-> k, flow |-> f, browser |-> b, new |-> ~Found(b), sid |-> s] OBVIOUS
<1>5. request' = [request EXCEPT ![r] = q] BY <1>1, <1>2, <1>4 DEF Given
<1>6. /\ q \in Handling /\ q.kind = k /\ q.sid = s /\ q.browser = b /\ q.flow = f
      /\ k # "exchange" /\ k # "idle"
  <2>1. f \in Flows \cup {None} /\ k \in Handlers /\ k # "exchange" /\ k # "idle"
    <3>1. f \in Flows \cup {None} OBVIOUS
    <3>2. k \in Handlers /\ k # "exchange" /\ k # "idle" BY DEF Handlers
    <3> QED BY <3>1, <3>2
  <2>4. (~Found(b)) \in BOOLEAN OBVIOUS
  <2>2. s \in Sids BY <1>3 DEF Gives
  <2>3. q \in Handling BY <1>4, <2>1, <2>2, <2>4 DEF Handling
  <2> QED BY <1>4, <2>1, <2>3
<1>7. \A t \in Requests : request'[t] = IF t = r THEN q ELSE request[t] BY <1>5 DEF Types
<1>8. Begun' = Begun BY <1>1 DEF Begun
<1>9. received \in 0 .. MaxRequests BY DEF Types
<1>10. Types'
  <2>1. request' \in [Requests -> {Idle} \cup Handling] BY <1>5, <1>6 DEF Types
  <2>2. received' \in 0 .. MaxRequests BY <1>1, <1>9, BoundsAssumption
  <2> QED BY <1>1, <1>3, <1>8, <2>1, <2>2 DEF Types, Gives
<1>11. Numbered'
  <2>1. Starting' \subseteq Starting \cup {r} BY <1>7 DEF Starting
  <2>2. IsFiniteSet(Starting) BY SessionAssumption, FS_Subset DEF Starting
  <2>3. /\ IsFiniteSet(Starting \cup {r}) /\ Cardinality(Starting \cup {r}) <= Cardinality(Starting) + 1
        /\ Cardinality(Starting) \in Nat /\ Cardinality(Starting \cup {r}) \in Nat
    <3>1. IsFiniteSet(Starting \cup {r}) BY <2>2, FS_AddElement
    <3>2. Cardinality(Starting) \in Nat /\ Cardinality(Starting \cup {r}) \in Nat
      BY <2>2, <3>1, FS_CardinalityType
    <3>3. Cardinality(Starting \cup {r}) = IF r \in Starting THEN Cardinality(Starting) ELSE Cardinality(Starting) + 1
      BY <2>2, FS_AddElement
    <3> QED BY <3>1, <3>2, <3>3
  <2>4. Cardinality(Starting') <= Cardinality(Starting \cup {r}) /\ Cardinality(Starting') \in Nat
    BY <2>1, <2>3, FS_Subset, FS_CardinalityType
  <2>5. PICK n \in Nat : Begun = 1 .. n /\ n + Cardinality(Starting) <= received BY DEF Numbered
  <2>6. n + Cardinality(Starting') <= received' BY <1>1, <1>9, <2>3, <2>4, <2>5
  <2>7. \E m \in Nat : Made' = 1 .. m /\ m <= Len(Restored) + received' BY <1>1, MiddlewareGives
  <2> QED BY <1>1, <1>8, <2>5, <2>6, <2>7 DEF Numbered
<1>12. Holding'
  <2>1. \A c \in Browsers : cookie'[c] # None => cookie'[c] \in Made' /\ owner'[cookie'[c]] = c
    BY <1>1, <1>3 DEF Holding, Gives
  <2>2. \A t \in Requests : request'[t] # Idle => Sid(t)' \in Made' /\ owner'[Sid(t)'] = request'[t].browser
    <3>1. SUFFICES ASSUME NEW t \in Requests, request'[t] # Idle
                   PROVE  request'[t].sid \in Made' /\ owner'[request'[t].sid] = request'[t].browser
      BY DEF Sid
    <3>2. CASE t = r BY <1>3, <1>6, <1>7, <3>2 DEF Gives
    <3>3. CASE t # r
      <4>1. request'[t] = request[t] /\ request[t].sid \in Made /\ owner[request[t].sid] = request[t].browser
        BY <1>7, <3>1, <3>3 DEF Holding, Sid
      <4> QED BY <1>3, <4>1 DEF Gives
    <3> QED BY <3>2, <3>3
  <2>3. \A t \in Requests : request'[t].kind \in {"callback", "exchange"} => request'[t].flow \in Begun'
    BY <1>1, <1>6, <1>7, <1>8 DEF Holding
  <2>4. \A t \in Requests : Is(t, "exchange")' => flowOf'[request'[t].flow] = Sid(t)'
    BY <1>1, <1>6, <1>7 DEF Holding, Is, Sid
  <2> QED BY <1>1, <2>1, <2>2, <2>3, <2>4 DEF Holding
<1>13. Honesty'
  <2>1. ASSUME NEW t \in Made' PROVE Honest(t, object[t])'
    <3>1. CASE t \in Made BY <1>1, <1>3, <1>8, <3>1 DEF Honesty, Honest, Gives
    <3>2. CASE t \notin Made
      <4>1. t = s BY <1>3, <2>1, <3>2 DEF Gives
      <4> QED BY <1>3, <3>2, <4>1 DEF Honest, Gives
    <3> QED BY <3>1, <3>2
  <2>2. \A t \in DOMAIN snapshot : t \in Made /\ owner'[t] = owner[t] BY <1>3 DEF Types, Gives
  <2>3. \A t \in DOMAIN snapshot' : Honest(t, snapshot[t])'
    BY <1>1, <1>8, <2>2 DEF Honesty, Honest
  <2> QED BY <2>1, <2>3 DEF Honesty
<1>14. Final'
  <2>1. None \notin spent BY DEF Types
  <2> QED BY <1>1, <1>3, <2>1 DEF Final, Gives
<1> QED BY <1>10, <1>11, <1>12, <1>13, <1>14

-----------------------------------------------------------------------------
(* The clock and the lifespan. *)

\* Time passes.
LEMMA TickHolds ==
  ASSUME IInv, Tick
  PROVE  IInv'
<1> USE DEF IInv, Tick, store, history
<1>1. Made' = Made /\ Begun' = Begun /\ Starting' = Starting BY DEF Made, Begun, Starting
<1>2. Types' BY <1>1, BoundsAssumption DEF Types
<1>3. Numbered' BY <1>1 DEF Numbered
<1>4. Holding' BY <1>1 DEF Holding, Sid, Is
<1>5. Honesty' /\ Final' BY <1>1 DEF Honesty, Honest, Final
<1> QED BY <1>2, <1>3, <1>4, <1>5

\* No request is in progress when the process is down.
LEMMA Quiet ==
  ASSUME IInv, request' = [r \in Requests |-> Idle], UNCHANGED <<owner, flowOf, received>>
  PROVE  /\ Made' = Made /\ Begun' = Begun /\ Numbered'
         /\ \A r \in Requests : request'[r] = Idle /\ request'[r].kind = "idle"
<1> USE Names DEF IInv
<1>1. Made' = Made /\ Begun' = Begun BY DEF Made, Begun
<1>2. \A r \in Requests : request'[r] = Idle /\ request'[r].kind = "idle" OBVIOUS
<1>3. Starting' \subseteq Starting BY <1>2 DEF Starting
<1> QED BY <1>1, <1>2, <1>3, BoundsAssumption, FewerStart DEF Types

\* A clean stop: what is live goes to the snapshot.
LEMMA ShutsHolds ==
  ASSUME IInv, Shuts
  PROVE  IInv'
<1> USE Names DEF IInv, Shuts, Stops
<1>1. /\ Made' = Made /\ Begun' = Begun /\ Numbered'
      /\ \A r \in Requests : request'[r] = Idle /\ request'[r].kind = "idle"
  BY Quiet
<1>2. Live \subseteq stored /\ Live \subseteq Made BY DEF Live, Types
<1>3. DOMAIN snapshot' = Live /\ \A s \in Live : snapshot'[s] = object[s] OBVIOUS
<1>4. Types' BY <1>1, <1>2, <1>3 DEF Types
<1>5. Holding' BY <1>1 DEF Holding, Sid, Is
<1>6. Honesty'
  <2>1. \A s, o : Honest(s, o)' <=> Honest(s, o) BY <1>1 DEF Honest
  <2> QED BY <1>1, <1>2, <1>3, <2>1 DEF Honesty, Honest
<1>7. Final' BY <1>1, <1>2, <1>3 DEF Final
<1> QED BY <1>1, <1>4, <1>5, <1>6, <1>7

\* A crash: it keeps the snapshot there was.
LEMMA CrashesHolds ==
  ASSUME IInv, Crashes
  PROVE  IInv'
<1> USE Names DEF IInv, Crashes, Stops
<1>1. /\ Made' = Made /\ Begun' = Begun /\ Numbered'
      /\ \A r \in Requests : request'[r] = Idle /\ request'[r].kind = "idle"
  BY Quiet
<1>2. Types' BY <1>1 DEF Types
<1>3. Holding' BY <1>1 DEF Holding, Sid, Is
<1>4. Honesty' /\ Final' BY <1>1 DEF Honesty, Honest, Final
<1> QED BY <1>1, <1>2, <1>3, <1>4

\* A start: the snapshot is the store, but for what expired.
LEMMA StartsHolds ==
  ASSUME IInv, Starts
  PROVE  IInv'
<1> USE Names DEF IInv, Starts
<1>1. Made' = Made /\ Begun' = Begun /\ Starting' = Starting BY DEF Made, Begun, Starting, history
<1>2. UNCHANGED <<now, snapshot, cookie, request, flowOf, owner, loggedOut, spent, received, crashed>>
  BY DEF history
<1>3. \A s \in Sids : object'[s] = IF s \in DOMAIN snapshot THEN snapshot[s] ELSE object[s] OBVIOUS
<1>4. Types'
  <2>1. object' \in [Sids -> Session] BY DEF Types
  <2>2. now \in Nat BY BoundsAssumption DEF Types
  <2> QED BY <1>1, <1>2, <2>1, <2>2 DEF Types
<1>5. Numbered' BY <1>1, <1>2 DEF Numbered
<1>6. Holding' BY <1>1, <1>2 DEF Holding, Sid, Is
<1>7. Honesty'
  <2>1. \A s, o : Honest(s, o)' <=> Honest(s, o) BY <1>1, <1>2 DEF Honest
  <2>2. \A s \in Made : Honest(s, object'[s]) BY <1>3 DEF Honesty
  <2> QED BY <1>1, <1>2, <2>1, <2>2 DEF Honesty, Honest
<1>8. Final' BY <1>1, <1>2, <1>3 DEF Final
<1> QED BY <1>4, <1>5, <1>6, <1>7, <1>8

\* The first start, with the sessions it restored.
LEMMA InitHolds ==
  ASSUME Init
  PROVE  IInv
<1> USE Names DEF Init
<1>1. PICK n \in Nat : n = Len(Restored) /\ DOMAIN Restored = 1 .. n /\ \A s \in 1 .. n : Restored[s] \in Browsers
  BY SessionAssumption
<1>2. 1 .. n \subseteq Sids /\ MaxRequests \in Nat BY <1>1, BoundsAssumption DEF Sids
<1>3. /\ owner \in [Sids -> Browsers \cup {None}] /\ \A s \in Sids : owner[s] = IF s \in 1 .. n THEN Restored[s] ELSE None
  <2>1. stored = 1 .. n BY <1>1
  <2>2. owner = [s \in Sids |-> IF s \in 1 .. n THEN Restored[s] ELSE None] BY <2>1
  <2> HIDE DEF Init
  <2>3. \A s \in Sids : owner[s] = IF s \in 1 .. n THEN Restored[s] ELSE None BY <2>2
  <2>4. \A s \in Sids : owner[s] \in Browsers \cup {None} BY <1>1, <2>3
  <2>5. owner = [s \in Sids |-> owner[s]] BY <2>2
  <2>6. owner \in [Sids -> Browsers \cup {None}] BY ONLY <2>4, <2>5
  <2> QED BY <2>3, <2>6
<1>4. Made = 1 .. n
  <2>1. \A s \in Sids : s \in 1 .. n => owner[s] = Restored[s] /\ Restored[s] \in Browsers
    BY <1>1, <1>3
  <2>2. \A s \in Sids : s \in 1 .. n <=> owner[s] # None BY <1>3, <2>1
  <2> HIDE DEF Init
  <2> QED BY <1>2, <2>2 DEF Made
<1>5. Begun = {} /\ \A f \in Flows : flowOf[f] = None BY DEF Begun
<1>6. Anonymous \in Session /\ Anonymous.root = None /\ Anonymous.flow = None
  BY DEF Anonymous, Session
<1>7. \A r \in Requests : request[r] = Idle /\ request[r].kind = "idle" OBVIOUS
<1>8. \A b \in Browsers : cookie[b] # None => cookie[b] \in Made /\ owner[cookie[b]] = b
  <2>1. SUFFICES ASSUME NEW b \in Browsers, cookie[b] # None
                 PROVE  cookie[b] \in stored /\ Restored[cookie[b]] = b
    BY <1>1, <1>2, <1>3, <1>4
  <2>2. \E s \in stored : Restored[s] = b BY <2>1
  <2>3. cookie[b] = CHOOSE s \in stored : Restored[s] = b BY <2>2
  <2> QED BY <2>2, <2>3
<1>9. Types
  <2>1. cookie \in [Browsers -> Sids \cup {None}]
    <3>1. \A b \in Browsers : cookie[b] \in Sids \cup {None} BY <1>4, <1>8
    <3>2. cookie = [b \in Browsers |-> cookie[b]] OBVIOUS
    <3> QED BY <3>1, <3>2
  <2>2. object \in [Sids -> Session] BY <1>6
  <2>3. flowOf \in [Flows -> Sids \cup {None}] /\ request \in [Requests -> {Idle} \cup Handling] OBVIOUS
  <2>4. \A s \in DOMAIN snapshot : snapshot[s] \in Session BY <1>6
  <2>5. stored = Made /\ DOMAIN snapshot = Made BY <1>1, <1>4
  <2>6. now \in 0 .. MaxNow /\ lastPurge \in 0 .. now /\ received \in 0 .. MaxRequests
    BY BoundsAssumption
  <2>7. up \in BOOLEAN /\ crashed \in BOOLEAN /\ loggedOut \subseteq Made /\ spent \subseteq Begun OBVIOUS
  <2> HIDE DEF Init
  <2> QED BY <1>3, <2>1, <2>2, <2>3, <2>4, <2>5, <2>6, <2>7 DEF Types
<1>10. Numbered
  <2>1. Made = 1 .. n /\ n <= Len(Restored) + received BY <1>1, <1>4
  <2>2. Starting = {} BY <1>7 DEF Starting
  <2>3. Begun = 1 .. 0 /\ 0 + Cardinality(Starting) <= received BY <1>5, <2>2, FS_EmptySet
  <2> QED BY <2>1, <2>3 DEF Numbered
<1>11. Holding BY <1>7, <1>8 DEF Holding, Is
<1>12. Honesty
  <2>1. \A s \in Sids : object[s] = Anonymous OBVIOUS
  <2>2. \A s \in DOMAIN snapshot : snapshot[s] = Anonymous OBVIOUS
  <2> QED BY <1>6, <2>1, <2>2 DEF Honesty, Honest
<1>13. Final BY DEF Final
<1> QED BY <1>9, <1>10, <1>11, <1>12, <1>13 DEF IInv

\* Every step preserves the invariant.
LEMMA StepHolds ==
  ASSUME IInv, [Next]_vars
  PROVE  IInv'
<1>1. CASE \E r \in Requests :
             \/ Arrives(r) \/ Answers(r) \/ Fails(r) \/ LogsIn(r) \/ LogsOut(r)
             \/ OidcStart(r) \/ OidcChecks(r) \/ OidcMismatch(r) \/ OidcRefused(r) \/ OidcAttaches(r)
  BY <1>1, ArrivesHolds, AnswersHolds, FailsHolds, LogsInHolds, LogsOutHolds, OidcStartHolds,
     OidcChecksHolds, OidcFailsHolds, OidcAttachesHolds
<1>2. CASE Tick \/ Shuts \/ Crashes \/ Starts
  BY <1>2, TickHolds, ShutsHolds, CrashesHolds, StartsHolds
<1>3. CASE UNCHANGED vars
  <2> USE <1>3 DEF vars, store, history, IInv
  <2>1. Made' = Made /\ Begun' = Begun /\ Starting' = Starting BY DEF Made, Begun, Starting
  <2>2. Types' /\ Numbered' BY <2>1 DEF Types, Numbered
  <2>3. Holding' BY <2>1 DEF Holding, Sid, Is
  <2>4. Honesty' /\ Final' BY <2>1 DEF Honesty, Honest, Final
  <2> QED BY <2>2, <2>3, <2>4
<1> QED BY <1>1, <1>2, <1>3 DEF Next

\* The invariant holds in every state that is reached.
LEMMA Invariant == Spec => []IInv
BY InitHolds, StepHolds, PTL DEF Spec

-----------------------------------------------------------------------------
(* The theorems. *)

\* A session speaks for nobody but the user of its browser, and the state of a
\* completed OIDC login is on no session again (callback of OidcMethod).
THEOREM SessionsAreTrue == Spec => []SessionsSpeakTrue
<1>1. ASSUME IInv PROVE SessionsSpeakTrue
  <2> USE <1>1, Names DEF IInv
  <2>1. TypeOK BY DEF Types, Holding, TypeOK
  <2>2. SpeaksForItsBrowser BY DEF Honesty, Honest, SpeaksForItsBrowser
  <2>3. SpentStateRefused BY DEF Final, SpentStateRefused
  <2> QED BY <2>1, <2>2, <2>3 DEF SessionsSpeakTrue
<1> QED BY Invariant, <1>1, PTL

\* A session that was logged out is not in the store again, not after a clean
\* stop either (delete and save_snapshot of MemorySessionStore).
THEOREM LogoutLasts == Spec => []LogoutIsFinal
<1>1. ASSUME IInv PROVE LogoutIsFinal BY <1>1 DEF IInv, Final, LogoutIsFinal
<1> QED BY Invariant, <1>1, PTL

\* What happened to what was kept, in one step.
Lasts ==
  \A s \in Kept :
    \/ Expired(Held(s)) \/ s \in loggedOut' \/ crashed'
    \/ s \in Kept' /\ (Held(s).root # None => Held(s)'.root = Held(s).root)

\* A step while the process is up, that writes identities no other than the
\* browser's own, and takes from the store what expired or was logged out.
LEMMA UpLasts ==
  ASSUME IInv, up, up',
         \A s \in stored : s \in stored' \/ s \in loggedOut' \/ Expired(object[s]),
         \A s \in stored : object'[s].root \in {object[s].root, owner[s]}
  PROVE  Lasts
<1>1. \A s \in stored : object[s].root \in {None, owner[s]} BY DEF IInv, Honesty, Honest, Types
<1>2. Kept = stored /\ Kept' = stored' BY DEF Kept
<1>3. \A s : Held(s) = object[s] /\ Held(s)' = object'[s] BY DEF Held
<1> QED BY <1>1, <1>2, <1>3 DEF Lasts

\* A request writes an identity to its own session only.
LEMMA WriteLasts ==
  ASSUME IInv, NEW r \in Requests, request[r].kind # "idle", Keeps,
         NEW o \in Session, o.root \in {object[Sid(r)].root, owner[Sid(r)]},
         object' = [object EXCEPT ![Sid(r)] = o]
  PROVE  Lasts
<1>1. up BY AtHandler
<1>2. \A s \in Sids : object'[s] = IF s = Sid(r) THEN o ELSE object[s] BY DEF IInv, Types
<1>3. stored \subseteq Sids BY Names DEF IInv, Types
<1> QED BY <1>1, <1>2, <1>3, UpLasts DEF Keeps

\* The steps of a request.
LEMMA RequestLasts ==
  ASSUME IInv, NEW r \in Requests,
         \/ Answers(r) \/ Fails(r) \/ LogsIn(r) \/ LogsOut(r)
         \/ OidcStart(r) \/ OidcChecks(r) \/ OidcMismatch(r) \/ OidcRefused(r) \/ OidcAttaches(r)
  PROVE  Lasts
<1>1. request[r].kind # "idle"
  BY DEF Answers, Fails, LogsIn, LogsOut, OidcStart, OidcChecks, OidcMismatch, OidcRefused,
         OidcAttaches, Is
<1>2. /\ object[Sid(r)] \in Session /\ request[r].browser \in Browsers /\ up
      /\ owner[Sid(r)] = request[r].browser
  BY <1>1, AtHandler
<1>3. PICK own : own = object[Sid(r)] OBVIOUS
<1>4. own \in Session BY <1>2, <1>3
<1>5. CASE Answers(r)
  <2>1. PICK o \in Session : o = [own EXCEPT !.dirty = FALSE] BY <1>2, <1>4, Written
  <2>2. o.root = own.root BY <1>2, <1>4, <2>1, Written
  <2>3. object' = [object EXCEPT ![Sid(r)] = o] /\ Keeps BY <1>3, <1>5, <2>1 DEF Answers
  <2> QED BY <1>1, <1>3, <2>2, <2>3, WriteLasts
<1>6. CASE Fails(r)
  <2>1. PICK o \in Session : o \in {own, [own EXCEPT !.dirty = TRUE]} /\ Raises(r, o)
    BY <1>2, <1>3, <1>4, <1>6, Written DEF Fails
  <2>2. o.root = own.root BY <1>2, <1>4, <2>1, Written
  <2>3. object' = [object EXCEPT ![Sid(r)] = o] /\ Keeps BY <2>1 DEF Raises
  <2> QED BY <1>1, <1>3, <2>2, <2>3, WriteLasts
<1>7. CASE LogsIn(r)
  <2>1. PICK o \in Session : o = Dressed(own, request[r].browser) BY <1>2, <1>4, Written
  <2>2. o.root = owner[Sid(r)] BY <1>2, <1>4, <2>1, Written
  <2>3. object' = [object EXCEPT ![Sid(r)] = o] /\ Keeps BY <1>3, <1>7, <2>1 DEF LogsIn
  <2> QED BY <1>1, <2>2, <2>3, WriteLasts
<1>8. CASE LogsOut(r) BY <1>2, <1>8, UpLasts DEF LogsOut
<1>9. CASE OidcStart(r)
  <2>1. PICK f : Raises(r, [own EXCEPT !.flow = f, !.dirty = TRUE]) BY <1>3, <1>9 DEF OidcStart
  <2>2. PICK o : o = [own EXCEPT !.flow = f, !.dirty = TRUE] OBVIOUS
  <2>3. o.root = own.root BY <1>4, <2>2 DEF Session
  <2>4. object' = [object EXCEPT ![Sid(r)] = o] /\ Keeps BY <2>1, <2>2 DEF Raises
  <2>5. \A s \in Sids : object'[s] = IF s = Sid(r) THEN o ELSE object[s] BY <2>4 DEF IInv, Types
  <2>6. stored \subseteq Sids BY Names DEF IInv, Types
  <2> QED BY <1>2, <1>3, <2>3, <2>4, <2>5, <2>6, UpLasts DEF Keeps
<1>10. CASE OidcChecks(r) BY <1>2, <1>10, UpLasts DEF OidcChecks, Keeps
<1>11. CASE OidcMismatch(r) \/ OidcRefused(r)
  <2>1. object' = [object EXCEPT ![Sid(r)] = own] /\ Keeps
    BY <1>3, <1>11 DEF OidcMismatch, OidcRefused, Raises
  <2> QED BY <1>1, <1>3, <1>4, <2>1, WriteLasts
<1>12. CASE OidcAttaches(r)
  <2>1. owner[flowOf[request[r].flow]] = request[r].browser
    BY <1>2, <1>12 DEF IInv, Holding, OidcAttaches
  <2>2. PICK o \in Session : o = [Dressed(own, request[r].browser) EXCEPT !.flow = None]
    BY <1>2, <1>4, Written
  <2>3. o.root = owner[Sid(r)] BY <1>2, <1>4, <2>2, Written
  <2>4. object' = [object EXCEPT ![Sid(r)] = o] /\ Keeps
    BY <1>3, <1>12, <2>1, <2>2 DEF OidcAttaches, Raises
  <2> QED BY <1>1, <2>3, <2>4, WriteLasts
<1> QED BY <1>5, <1>6, <1>7, <1>8, <1>9, <1>10, <1>11, <1>12

\* The arrival of a request, the clock and the lifespan.
LEMMA OthersLast ==
  ASSUME IInv, (\E r \in Requests : Arrives(r)) \/ Tick \/ Shuts \/ Crashes \/ Starts
  PROVE  Lasts
<1>1. CASE \E r \in Requests : Arrives(r)
  <2>1. PICK r \in Requests : Arrives(r) BY <1>1
  <2>2. PICK b \in Browsers : /\ received < MaxRequests /\ UNCHANGED <<up, loggedOut>> /\ up
                              /\ IF Found(b) THEN Reconnects(b) ELSE Creates(b)
    BY <2>1 DEF Arrives
  <2>3. Gives(b, Given(b)) BY <2>2, MiddlewareGives
  <2> QED BY <2>2, <2>3, UpLasts DEF Gives, IInv, Types
<1>2. CASE Tick
  <2>1. UNCHANGED <<up, stored, snapshot, object>> BY <1>2 DEF Tick, store
  <2>2. Kept' = Kept /\ \A s : Held(s)' = Held(s) BY <2>1 DEF Kept, Held
  <2> QED BY <2>2 DEF Lasts
<1>3. CASE Shuts
  <2>1. up /\ ~up' /\ snapshot' = [s \in Live |-> object[s]] BY <1>3 DEF Shuts, Stops
  <2>2. Kept = stored /\ Kept' = Live BY <2>1 DEF Kept
  <2>3. \A s \in Live : Held(s) = object[s] /\ Held(s)' = object[s] BY <2>1 DEF Held
  <2>4. \A s \in stored : s \in Live \/ Expired(Held(s)) BY <2>1 DEF Live, Held
  <2> QED BY <2>2, <2>3, <2>4 DEF Lasts
<1>4. CASE Crashes BY <1>4 DEF Crashes, Lasts
<1>5. CASE Starts
  <2>1. ~up /\ up' BY <1>5 DEF Starts
  <2>2. Kept = DOMAIN snapshot /\ Kept' = {s \in DOMAIN snapshot : ~Expired(snapshot[s])}
    BY <1>5, <2>1 DEF Kept, Starts
  <2>3. DOMAIN snapshot \subseteq Sids BY Names DEF IInv, Types
  <2>4. \A s \in DOMAIN snapshot : Held(s) = snapshot[s] /\ Held(s)' = snapshot[s]
    BY <1>5, <2>1, <2>3 DEF Held, Starts
  <2> QED BY <2>2, <2>4 DEF Lasts
<1> QED BY <1>1, <1>2, <1>3, <1>4, <1>5

\* A session is lost by its own idleness, by logout or by a crash, and keeps
\* its identity (get, purge_expired, save_snapshot and load_snapshot of the
\* store).
THEOREM SessionsLast == Spec => SessionsAreKept
<1>1. ASSUME IInv, Next PROVE Lasts
  <2>1. CASE \E r \in Requests :
               \/ Answers(r) \/ Fails(r) \/ LogsIn(r) \/ LogsOut(r)
               \/ OidcStart(r) \/ OidcChecks(r) \/ OidcMismatch(r) \/ OidcRefused(r) \/ OidcAttaches(r)
    BY <1>1, <2>1, RequestLasts
  <2>2. CASE (\E r \in Requests : Arrives(r)) \/ Tick \/ Shuts \/ Crashes \/ Starts
    BY <1>1, <2>2, OthersLast
  <2> QED BY <1>1, <2>1, <2>2 DEF Next
<1>2. IInv /\ [Next]_vars =>
        [\A s \in Kept :
           \/ Expired(Held(s)) \/ s \in loggedOut' \/ crashed'
           \/ s \in Kept' /\ (Held(s).root # None => Held(s)'.root = Held(s).root)]_vars
  BY <1>1 DEF Lasts
<1> QED BY Invariant, <1>2, PTL DEF Spec, SessionsAreKept
=============================================================================
