------------------------ MODULE CredentialRevocation ------------------------
(***************************************************************************)
(* The credential cache of the server and of the process of an external    *)
(* application (auth/mixin.py), the routes that withdraw a credential, and *)
(* the call that makes every joined process forget it (kbus_mixin.py).     *)
(*                                                                         *)
(* The server and each process run one event loop; the route that verifies *)
(* runs on a pool thread of the server. An action is what runs between two *)
(* awaits, or the read that a thread makes. That a role has one process at *)
(* a time is ProcessSupervisor's.                                          *)
(***************************************************************************)
EXTENDS Integers

CONSTANTS
  Server,      \* the process of the server, where the routes are
  Pids,        \* the processes the role may have, one after the other
  NoPid,
  Keys,        \* the credentials
  Expires,     \* the instant at which each stops being valid
  TTL,         \* credential_cache_ttl
  NoKey,
  Requests,    \* bound: the requests there are at a time
  MaxTime      \* bound: instants

ASSUME NamesAssumption == Server \notin Pids /\ NoPid \notin Pids /\ NoPid # Server
ASSUME KeysAssumption  == NoKey \notin Keys /\ Expires \in [Keys -> Nat]
ASSUME TimeAssumption  == TTL \in Nat /\ MaxTime \in Nat

VARIABLES
  now,
  valid,       \* valid[k]: the record of k is there and enabled
  cache,       \* cache[q][k]: when the entry of k in process q ends; 0, none
  generation,  \* generation[q]: _credential_cache_generation of process q
  life,        \* life[p]: process p of the role
  pid,         \* kbus_pids[code], or NoPid
  route,       \* route[k]: the call that withdraws k
  drops,       \* drops[k]: the credentials it makes a process forget
  forget,      \* forget[k][p]: forget_in for process p
  req,         \* req[r]: one request with a credential
  accepted     \* the kinds of requests that were let in (history)

vars == <<now, valid, cache, generation, life, pid, route, drops, forget, req, accepted>>
bus  == <<life, pid, route, drops, forget>>

Processes == {Server} \cup Pids

RequestType ==
  [at    : {"idle", "opened", "asked", "answered"},
   proc  : Processes, key : Keys \cup {NoKey},
   late  : BOOLEAN,         \* opened once the withdrawal had answered (history)
   fresh : BOOLEAN,         \* looked at before the credential expired (history)
   gen   : Nat,             \* the generation it was asked under
   good  : BOOLEAN]         \* what the route answered

Idle == [at |-> "idle", proc |-> Server, key |-> NoKey, late |-> FALSE, fresh |-> FALSE,
         gen |-> 0, good |-> FALSE]

TypeOK ==
  /\ now \in 0 .. MaxTime
  /\ valid \in [Keys -> BOOLEAN]
  /\ cache \in [Processes -> [Keys -> 0 .. MaxTime + TTL]]
  /\ generation \in [Processes -> Nat]
  /\ life \in [Pids -> {"unborn", "starting", "joined", "leaving", "gone"}]
  /\ pid \in Pids \cup {NoPid}
  /\ route \in [Keys -> {"idle", "waiting", "answered"}]
  /\ drops \in [Keys -> SUBSET Keys]
  /\ forget \in [Keys -> [Pids -> {"none", "sent", "forgot"}]]
  /\ req \in [Requests -> RequestType]
  /\ \A r \in Requests : req[r].at # "idle" => req[r].key \in Keys
  /\ accepted \subseteq [late : BOOLEAN, fresh : BOOLEAN]

Init ==
  /\ now = 0
  /\ valid = [k \in Keys |-> TRUE]
  /\ cache = [q \in Processes |-> [k \in Keys |-> 0]]
  /\ generation = [q \in Processes |-> 0]
  /\ life = [p \in Pids |-> "unborn"] /\ pid = NoPid
  /\ route = [k \in Keys |-> "idle"] /\ drops = [k \in Keys |-> {}]
  /\ forget = [k \in Keys |-> [p \in Pids |-> "none"]]
  /\ req = [r \in Requests |-> Idle] /\ accepted = {}

Running(q) == q \in Pids => life[q] \in {"joined", "leaving"}

-----------------------------------------------------------------------------
(* A request with an Authorization header: authenticate_credential.        *)

\* The server serves it, or opens a stream to the process that joined.
Opens(r, q, k) ==
  /\ req[r].at = "idle"
  /\ q \in Pids => q = pid /\ life[q] = "joined"
  /\ req' = [req EXCEPT ![r] = [Idle EXCEPT !.at = "opened", !.proc = q, !.key = k,
                                           !.late = route[k] = "answered"]]
  /\ UNCHANGED <<now, valid, cache, generation, bus, accepted>>

Accepts(r, isFresh) ==
  /\ req' = [req EXCEPT ![r] = Idle]
  /\ accepted' = accepted \cup {[late |-> req[r].late, fresh |-> isFresh]}

\* The cache answers, or the route of the channel is called.
Looks(r) ==
  LET q == req[r].proc
      k == req[r].key
  IN  /\ req[r].at = "opened" /\ Running(q)
      /\ IF cache[q][k] > now
         THEN Accepts(r, now < Expires[k])
         ELSE /\ req' = [req EXCEPT ![r].at = "asked", ![r].fresh = now < Expires[k],
                                    ![r].gen = generation[q]]
              /\ UNCHANGED accepted
      /\ UNCHANGED <<now, valid, cache, generation, bus>>

\* The route, in the server: the record is read, and compared with the time.
Verifies(r) ==
  LET k == req[r].key
  IN  /\ req[r].at = "asked"
      /\ req' = [req EXCEPT ![r].at = "answered", ![r].good = valid[k] /\ now < Expires[k]]
      /\ UNCHANGED <<now, valid, cache, generation, bus, accepted>>

Least(a, b) == IF a < b THEN a ELSE b

Lifetime(k) == Least(TTL, Expires[k] - now)

\* Wrong: the cache takes an answer given before a forget.
MayCacheAnyway(r) == TTL > 0

\* The answer was not overtaken by a forget.
MayCache(r) == TTL > 0 /\ req[r].gen = generation[req[r].proc]

\* A good answer arrives: the request is let in, the cache filled.
Judges(r) ==
  LET q == req[r].proc
      k == req[r].key
  IN  /\ req[r].at = "answered" /\ req[r].good /\ Running(q)
      /\ Accepts(r, req[r].fresh)
      /\ cache' = IF MayCache(r) /\ Lifetime(k) > 0
                  THEN [cache EXCEPT ![q][k] = now + Lifetime(k)]
                  ELSE cache
      /\ UNCHANGED <<now, valid, generation, bus>>

\* A 401; or the route raises, its answer is lost, the process ends: a 503.
Refuses(r) ==
  /\ req[r].at \in {"opened", "asked", "answered"}
  /\ req' = [req EXCEPT ![r] = Idle]
  /\ UNCHANGED <<now, valid, cache, generation, bus, accepted>>

-----------------------------------------------------------------------------
(* A credential is withdrawn: tokens.revoke and tokens.delete, or an       *)
(* application that stops accepting it and calls auth.forget_credential.   *)

ForgetsIn(q, keys) ==
  /\ generation' = [generation EXCEPT ![q] = @ + 1]
  /\ cache' = [cache EXCEPT ![q] = [j \in Keys |-> IF j \in keys THEN 0 ELSE @[j]]]

\* forget_credentials_everywhere, as far as its gather: here, and a call to
\* every process that has joined.
ForgetsEverywhere(k, keys) ==
  /\ ForgetsIn(Server, keys)
  /\ route' = [route EXCEPT ![k] = "waiting"]
  /\ drops' = [drops EXCEPT ![k] = keys]
  /\ forget' = [forget EXCEPT ![k] =
                  [p \in Pids |-> IF p = pid THEN "sent" ELSE "none"]]

\* An api key: it is disabled or deleted, and all credentials are forgotten.
Revoke(k) ==
  /\ valid[k] /\ valid' = [valid EXCEPT ![k] = FALSE]
  /\ ForgetsEverywhere(k, Keys)
  /\ UNCHANGED <<now, life, pid, req, accepted>>

\* The application that verifies k stops accepting it ...
Withdraw(k) ==
  /\ valid[k] /\ valid' = [valid EXCEPT ![k] = FALSE]
  /\ UNCHANGED <<now, cache, generation, bus, req, accepted>>

\* ... and calls the route that forgets it.
ForgetCredential(k) ==
  /\ ~valid[k] /\ route[k] = "idle"
  /\ ForgetsEverywhere(k, {k})
  /\ UNCHANGED <<now, valid, life, pid, req, accepted>>

\* The process serves forget_credentials.
Forgets(k, p) ==
  /\ forget[k][p] = "sent" /\ Running(p)
  /\ forget' = [forget EXCEPT ![k][p] = "forgot"]
  /\ ForgetsIn(p, drops[k])
  /\ UNCHANGED <<now, valid, life, pid, route, drops, req, accepted>>

Confirms(k, p) ==
  /\ forget[k][p] = "forgot"
  /\ forget' = [forget EXCEPT ![k][p] = "none"]
  /\ UNCHANGED <<now, valid, cache, generation, life, pid, route, drops, req, accepted>>

\* Wrong: no timeout; only a process the bus cannot reach is given up.
GivesUpOnlyGone(k, p) ==
  /\ forget[k][p] \in {"sent", "forgot"} /\ life[p] = "gone"
  /\ forget' = [forget EXCEPT ![k][p] = "none"]
  /\ pid' = IF pid = p THEN NoPid ELSE pid
  /\ UNCHANGED <<now, valid, cache, generation, life, route, drops, req, accepted>>

\* It cannot be reached, or does not confirm in time: no request goes to it
\* any more and it is relaunched.
GivesUp(k, p) ==
  /\ forget[k][p] \in {"sent", "forgot"}
  /\ forget' = [forget EXCEPT ![k][p] = "none"]
  /\ IF pid = p
     THEN /\ pid' = NoPid
          /\ life' = IF life[p] = "joined" THEN [life EXCEPT ![p] = "leaving"] ELSE life
     ELSE UNCHANGED <<life, pid>>
  /\ UNCHANGED <<now, valid, cache, generation, route, drops, req, accepted>>

RouteAnswers(k) ==
  /\ route[k] = "waiting"
  /\ \A p \in Pids : forget[k][p] \notin {"sent", "forgot"}
  /\ route' = [route EXCEPT ![k] = "answered"]
  /\ UNCHANGED <<now, valid, cache, generation, life, pid, drops, forget, req, accepted>>

-----------------------------------------------------------------------------
(* The process of the role.                                                *)

\* The spawner starts one once the previous is over and was dropped.
Born(p) ==
  /\ life[p] = "unborn" /\ pid = NoPid
  /\ \A o \in Pids : life[o] \in {"unborn", "gone"}
  /\ life' = [life EXCEPT ![p] = "starting"]
  /\ UNCHANGED <<now, valid, cache, generation, pid, route, drops, forget, req, accepted>>

\* _external_joined.
Joins(p) ==
  /\ life[p] = "starting"
  /\ life' = [life EXCEPT ![p] = "joined"] /\ pid' = p
  /\ UNCHANGED <<now, valid, cache, generation, route, drops, forget, req, accepted>>

\* The process ends, and its memory with it.
Dies(p) ==
  /\ life[p] \in {"starting", "joined", "leaving"}
  /\ life' = [life EXCEPT ![p] = "gone"]
  /\ cache' = [cache EXCEPT ![p] = [k \in Keys |-> 0]]
  /\ UNCHANGED <<now, valid, generation, pid, route, drops, forget, req, accepted>>

\* _member_lost, _relaunch_role: the link or the process ended.
Lost(p) ==
  /\ pid = p /\ pid' = NoPid
  /\ life' = IF life[p] = "joined" THEN [life EXCEPT ![p] = "leaving"] ELSE life
  /\ UNCHANGED <<now, valid, cache, generation, route, drops, forget, req, accepted>>

Clock ==
  /\ now < MaxTime /\ now' = now + 1
  /\ UNCHANGED <<valid, cache, generation, bus, req, accepted>>

RequestStep(r) ==
  \/ \E q \in Processes, k \in Keys : Opens(r, q, k)
  \/ Looks(r) \/ Verifies(r) \/ Judges(r) \/ Refuses(r)

WithdrawalStep(k) ==
  \/ Revoke(k) \/ Withdraw(k) \/ ForgetCredential(k) \/ RouteAnswers(k)
  \/ \E p \in Pids : Forgets(k, p) \/ Confirms(k, p) \/ GivesUp(k, p)

ProcessStep(p) == Born(p) \/ Joins(p) \/ Dies(p) \/ Lost(p)

Next ==
  \/ \E r \in Requests : RequestStep(r)
  \/ \E k \in Keys : WithdrawalStep(k)
  \/ \E p \in Pids : ProcessStep(p)
  \/ Clock

\* asyncio.timeout ends the wait for a process that may never answer; the
\* server's loop runs what is ready. Nothing is asked of the process.
Fairness ==
  \A k \in Keys : /\ WF_vars(RouteAnswers(k))
                  /\ \A p \in Pids : WF_vars(GivesUp(k, p))

Spec == Init /\ [][Next]_vars /\ Fairness

-----------------------------------------------------------------------------
\* Once the route has answered, no new request accepts the credential, in the
\* server or in whatever process it is sent to (SPECIFICATION.md, credential
\* cache; forget_credentials_everywhere), whatever was being verified then.
WithdrawnIsRefused ==
  \A a \in accepted : ~a.late

\* A cached avatar never outlives the credential (authenticate_credential):
\* what is accepted had not expired when it was looked at.
ExpiredIsRefused ==
  \A a \in accepted : a.fresh

\* No request is accepted on a credential that was withdrawn or has expired.
OnlyValidIsAccepted == TypeOK /\ WithdrawnIsRefused /\ ExpiredIsRefused

\* The route that withdraws a credential answers, though a process that hangs
\* never does (FORGET_CREDENTIALS_TIMEOUT).
WithdrawalEnds == \A k \in Keys : route[k] = "waiting" ~> route[k] = "answered"
=============================================================================
