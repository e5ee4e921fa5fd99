--------------------------- MODULE Identity_proofs ---------------------------
(***************************************************************************)
(* The identities: credentials that are withdrawn, and below, the records  *)
(* of the users.                                                           *)
(*                                                                         *)
(* Of CredentialRevocation, for any credentials, any processes and any     *)
(* number of requests at a time. What makes WithdrawnIsRefused true is     *)
(* that a process a request can be sent to is "clean" of a withdrawn       *)
(* credential once the route has answered: it has no entry for it, and     *)
(* every good answer it still waits for was asked under an older           *)
(* generation. Nothing makes a clean process unclean, since the record is  *)
(* gone.                                                                   *)
(***************************************************************************)
EXTENDS CredentialRevocation, UserAccounts, TLAPS

Clean(q, k) ==
  /\ cache[q][k] = 0
  /\ \A r \in Requests :
       req[r].at = "answered" /\ req[r].good /\ req[r].proc = q /\ req[r].key = k
         => req[r].gen # generation[q]

\* A call that withdraws k has begun only once its record is gone.
RecordGoesFirst == \A k \in Keys : route[k] # "idle" => ~valid[k] /\ k \in drops[k]

\* A generation never goes back under a request that was asked.
GenerationsPass ==
  \A r \in Requests :
    req[r].at \in {"asked", "answered"} => req[r].gen <= generation[req[r].proc]

\* A process that has not joined has seen no request.
NewIsEmpty ==
  \A p \in Pids : life[p] \in {"unborn", "starting"} =>
    /\ \A k \in Keys : cache[p][k] = 0 /\ forget[k][p] = "none"
    /\ \A r \in Requests : req[r].at # "idle" => req[r].proc # p
    /\ pid # p

\* The server is clean from the first step of the call, a process that is
\* addressed from when it forgot, and nothing is under way once it answered.
Forgotten(k) ==
  /\ Clean(Server, k)
  /\ \A p \in Pids : pid = p /\ forget[k][p] # "sent" => Clean(p, k)
  /\ route[k] = "answered" => \A p \in Pids : forget[k][p] = "none"

ForgottenWhereAddressed == \A k \in Keys : route[k] # "idle" => Forgotten(k)

CallsFollowRoute == \A k \in Keys, p \in Pids : forget[k][p] # "none" => route[k] = "waiting"

\* A late request is in a clean process, and no good answer is for it.
LateOf(r) ==
  req[r].at # "idle" /\ req[r].late =>
    /\ route[req[r].key] = "answered"
    /\ Clean(req[r].proc, req[r].key)
    /\ ~req[r].good

LateIsClean == \A r \in Requests : LateOf(r)

\* Nothing cached, and nothing good under way, has outlived its credential.
ExpiryCounts ==
  /\ \A q \in Processes, k \in Keys : cache[q][k] <= Expires[k]
  /\ \A r \in Requests :
       /\ req[r].at \in {"asked", "answered"} /\ ~req[r].fresh => now >= Expires[req[r].key]
       /\ req[r].at = "answered" /\ req[r].good => req[r].fresh

IInv ==
  /\ TypeOK
  /\ RecordGoesFirst
  /\ GenerationsPass
  /\ NewIsEmpty
  /\ CallsFollowRoute
  /\ ForgottenWhereAddressed
  /\ LateIsClean
  /\ WithdrawnIsRefused
  /\ ExpiryCounts
  /\ ExpiredIsRefused

-----------------------------------------------------------------------------
(* Type correctness.                                                       *)

LEMMA InitTypeOK == Init => TypeOK
<1> SUFFICES ASSUME Init PROVE TypeOK
  OBVIOUS
<1>1. Idle \in RequestType
  BY DEF Idle, RequestType, Processes
<1> QED
  BY <1>1, TimeAssumption DEF Init, TypeOK, Idle

\* How long an entry lives, when it lives at all.
LEMMA LifetimeBound ==
  ASSUME NEW k \in Keys, TypeOK
  PROVE  /\ Lifetime(k) \in Int /\ Lifetime(k) <= TTL
         /\ now + Lifetime(k) <= Expires[k]
BY KeysAssumption, TimeAssumption DEF TypeOK, Lifetime, Least

LEMMA LifetimeType ==
  ASSUME NEW k \in Keys, TypeOK, Lifetime(k) > 0
  PROVE  now + Lifetime(k) \in 0 .. MaxTime + TTL
BY LifetimeBound, TimeAssumption DEF TypeOK

\* A request that asked, and one that was answered, keeps its type and its key.
LEMMA AskedType ==
  ASSUME NEW x \in RequestType, NEW f \in BOOLEAN, NEW g \in Nat
  PROVE  LET y == [x EXCEPT !.at = "asked", !.fresh = f, !.gen = g]
         IN  y \in RequestType /\ y.key = x.key
BY DEF RequestType

LEMMA AnsweredType ==
  ASSUME NEW x \in RequestType, NEW b \in BOOLEAN
  PROVE  LET y == [x EXCEPT !.at = "answered", !.good = b]
         IN  y \in RequestType /\ y.key = x.key
BY DEF RequestType

LEMMA AcceptsType ==
  ASSUME NEW r \in Requests, NEW b \in BOOLEAN, TypeOK, Accepts(r, b)
  PROVE  /\ req' \in [Requests -> RequestType]
         /\ \A o \in Requests : req'[o].at # "idle" => req'[o].key \in Keys
         /\ accepted' \subseteq [late : BOOLEAN, fresh : BOOLEAN]
<1>1. Idle \in RequestType /\ Idle.at = "idle"
  BY DEF Idle, RequestType, Processes
<1>2. req[r].late \in BOOLEAN
  BY DEF TypeOK, RequestType
<1>3. [late |-> req[r].late, fresh |-> b] \in [late : BOOLEAN, fresh : BOOLEAN]
  BY <1>2
<1> QED
  BY <1>1, <1>3 DEF TypeOK, Accepts

LEMMA StepTypeOK == TypeOK /\ [Next]_vars => TypeOK'
<1> SUFFICES ASSUME TypeOK, [Next]_vars PROVE TypeOK'
  OBVIOUS
<1> USE TimeAssumption DEF TypeOK, bus
<1>1. ASSUME NEW r \in Requests, RequestStep(r) PROVE TypeOK'
  <2>1. ASSUME NEW q \in Processes, NEW k \in Keys, Opens(r, q, k) PROVE TypeOK'
    BY <2>1 DEF Opens, RequestType, Idle, Processes
  <2>2. CASE Looks(r)
    <3> DEFINE isFresh == now < Expires[req[r].key]
    <3>1. isFresh \in BOOLEAN
      OBVIOUS
    <3>2. req[r] \in RequestType /\ req[r].key \in Keys /\ generation[req[r].proc] \in Nat
      BY <2>2 DEF Looks, RequestType
    <3>3. UNCHANGED <<now, valid, cache, generation, bus>>
      BY <2>2 DEF Looks
    <3>4. CASE cache[req[r].proc][req[r].key] > now
      <4>1. Accepts(r, isFresh)
        BY <2>2, <3>4 DEF Looks
      <4> HIDE DEF isFresh
      <4> QED
        BY <3>1, <3>3, <4>1, AcceptsType
    <3>5. CASE ~(cache[req[r].proc][req[r].key] > now)
      <4> DEFINE asked == [req[r] EXCEPT !.at = "asked", !.fresh = isFresh,
                                         !.gen = generation[req[r].proc]]
      <4>1. req' = [req EXCEPT ![r] = asked] /\ accepted' = accepted
        BY <2>2, <3>5 DEF Looks
      <4> HIDE DEF isFresh
      <4>2. asked \in RequestType /\ asked.key = req[r].key
        BY ONLY <3>1, <3>2, AskedType, Zenon
      <4> HIDE DEF asked
      <4> QED
        BY <3>2, <3>3, <4>1, <4>2
    <3> QED
      BY <3>4, <3>5
  <2>3. CASE Verifies(r)
    <3> DEFINE answer == valid[req[r].key] /\ now < Expires[req[r].key]
    <3>1. answer \in BOOLEAN
      OBVIOUS
    <3>2. req[r] \in RequestType /\ req[r].key \in Keys
      BY <2>3 DEF Verifies
    <3>3. /\ req' = [req EXCEPT ![r] = [req[r] EXCEPT !.at = "answered", !.good = answer]]
          /\ UNCHANGED <<now, valid, cache, generation, bus, accepted>>
      BY <2>3 DEF Verifies
    <3> HIDE DEF answer
    <3> QED
      BY <3>1, <3>2, <3>3, AnsweredType
  <2>4. CASE Judges(r)
    <3>1. req[r].key \in Keys /\ req[r].proc \in Processes
      BY <2>4 DEF Judges, RequestType
    <3>2. req[r].fresh \in BOOLEAN /\ Accepts(r, req[r].fresh)
      BY <2>4 DEF Judges, RequestType
    <3>3. cache' \in [Processes -> [Keys -> 0 .. MaxTime + TTL]]
      BY <2>4, <3>1, LifetimeType DEF Judges
    <3> QED
      BY <2>4, <3>2, <3>3, AcceptsType DEF Judges
  <2>5. CASE Refuses(r)
    BY <2>5 DEF Refuses, RequestType, Idle, Processes
  <2> QED
    BY <1>1, <2>1, <2>2, <2>3, <2>4, <2>5 DEF RequestStep
<1>2. ASSUME NEW k \in Keys, WithdrawalStep(k) PROVE TypeOK'
  <2> USE <1>2 DEF ForgetsEverywhere, ForgetsIn, Processes
  <2>1. CASE Revoke(k)
    BY <2>1 DEF Revoke
  <2>2. CASE Withdraw(k)
    BY <2>2 DEF Withdraw
  <2>3. CASE ForgetCredential(k)
    BY <2>3 DEF ForgetCredential
  <2>4. CASE RouteAnswers(k)
    BY <2>4 DEF RouteAnswers
  <2>5. ASSUME NEW p \in Pids, Forgets(k, p) PROVE TypeOK'
    BY <2>5 DEF Forgets
  <2>6. ASSUME NEW p \in Pids, Confirms(k, p) PROVE TypeOK'
    BY <2>6 DEF Confirms
  <2>7. ASSUME NEW p \in Pids, GivesUp(k, p) PROVE TypeOK'
    BY <2>7 DEF GivesUp
  <2> QED
    BY <2>1, <2>2, <2>3, <2>4, <2>5, <2>6, <2>7 DEF WithdrawalStep
<1>3. ASSUME NEW p \in Pids, ProcessStep(p) PROVE TypeOK'
  <2>1. CASE Born(p)
    BY <2>1 DEF Born
  <2>2. CASE Joins(p)
    BY <2>2 DEF Joins
  <2>3. CASE Dies(p)
    BY <2>3 DEF Dies, Processes
  <2>4. CASE Lost(p)
    BY <2>4 DEF Lost
  <2> QED
    BY <1>3, <2>1, <2>2, <2>3, <2>4 DEF ProcessStep
<1>4. CASE Clock
  BY <1>4 DEF Clock
<1>5. CASE UNCHANGED vars
  BY <1>5 DEF vars
<1> QED
  BY <1>1, <1>2, <1>3, <1>4, <1>5 DEF Next

\* Every state is well typed, for any credentials and processes.
THEOREM TypeCorrect == Spec => []TypeOK
BY InitTypeOK, StepTypeOK, PTL DEF Spec

-----------------------------------------------------------------------------
(* Clean is stable: what happens to one request, one cache at a time.      *)

\* A process that forgot a credential is clean of it: whatever it still waits
\* for was asked under an older generation.
LEMMA ForgettingCleans ==
  ASSUME TypeOK, GenerationsPass, NEW q \in Processes, NEW k \in Keys,
         NEW keys \in SUBSET Keys, k \in keys, ForgetsIn(q, keys), UNCHANGED req
  PROVE  Clean(q, k)'
BY DEF TypeOK, RequestType, GenerationsPass, Clean, ForgetsIn

\* Forgetting does not make another process, or another credential, unclean.
LEMMA ForgettingKeepsClean ==
  ASSUME TypeOK, GenerationsPass, NEW q \in Processes, NEW k \in Keys,
         NEW p \in Processes, NEW keys \in SUBSET Keys, ForgetsIn(p, keys), UNCHANGED req,
         Clean(q, k)
  PROVE  Clean(q, k)'
<1>1. CASE p = q
  BY <1>1 DEF TypeOK, RequestType, GenerationsPass, Clean, ForgetsIn
<1>2. CASE p # q
  BY <1>2 DEF TypeOK, Clean, ForgetsIn
<1> QED
  BY <1>1, <1>2

LEMMA CleanIsStable ==
  ASSUME TypeOK, GenerationsPass, [Next]_vars, NEW q \in Processes, NEW k \in Keys,
         ~valid[k], Clean(q, k)
  PROVE  Clean(q, k)'
<1>1. ASSUME NEW r \in Requests, RequestStep(r) PROVE Clean(q, k)'
  <2>1. ASSUME NEW o \in Processes, NEW j \in Keys, Opens(r, o, j) PROVE Clean(q, k)'
    BY <2>1 DEF TypeOK, Clean, Opens, Idle
  <2>2. CASE Looks(r)
    <3>1. UNCHANGED <<cache, generation>>
      BY <2>2 DEF Looks
    <3>2. \/ req' = [req EXCEPT ![r] = Idle]
          \/ req' = [req EXCEPT ![r] = req'[r]] /\ req'[r].at = "asked"
      BY <2>2 DEF Looks, Accepts, TypeOK, RequestType
    <3> QED
      BY <3>1, <3>2 DEF TypeOK, Clean, Idle
  <2>3. CASE Verifies(r)
    BY <2>3 DEF TypeOK, Clean, Verifies
  <2>4. CASE Judges(r)
    <3>1. req' = [req EXCEPT ![r] = Idle] /\ UNCHANGED generation
      BY <2>4 DEF Judges, Accepts
    <3>2. cache'[q][k] = cache[q][k]
      BY <2>4 DEF TypeOK, RequestType, Clean, Judges, MayCache
    <3> QED
      BY <3>1, <3>2 DEF TypeOK, Clean, Idle
  <2>5. CASE Refuses(r)
    BY <2>5 DEF TypeOK, Clean, Refuses, Idle
  <2> QED
    BY <1>1, <2>1, <2>2, <2>3, <2>4, <2>5 DEF RequestStep
<1>2. ASSUME NEW j \in Keys, WithdrawalStep(j) PROVE Clean(q, k)'
  <2> USE DEF Processes
  <2>1. CASE Revoke(j)
    BY <2>1, ForgettingKeepsClean DEF Revoke, ForgetsEverywhere
  <2>2. CASE Withdraw(j)
    BY <2>2 DEF Withdraw, Clean
  <2>3. CASE ForgetCredential(j)
    BY <2>3, ForgettingKeepsClean DEF ForgetCredential, ForgetsEverywhere
  <2>4. CASE RouteAnswers(j)
    BY <2>4 DEF RouteAnswers, Clean
  <2>5. ASSUME NEW p \in Pids, Forgets(j, p) PROVE Clean(q, k)'
    BY <2>5, ForgettingKeepsClean DEF Forgets, TypeOK
  <2>6. ASSUME NEW p \in Pids, Confirms(j, p) \/ GivesUp(j, p) PROVE Clean(q, k)'
    BY <2>6 DEF Confirms, GivesUp, Clean
  <2> QED
    BY <1>2, <2>1, <2>2, <2>3, <2>4, <2>5, <2>6 DEF WithdrawalStep
<1>3. ASSUME NEW p \in Pids, ProcessStep(p) PROVE Clean(q, k)'
  <2>1. CASE Dies(p)
    BY <2>1 DEF TypeOK, Dies, Clean
  <2>2. CASE Born(p) \/ Joins(p) \/ Lost(p)
    BY <2>2 DEF Born, Joins, Lost, Clean
  <2> QED
    BY <1>3, <2>1, <2>2 DEF ProcessStep
<1>4. CASE Clock \/ UNCHANGED vars
  BY <1>4 DEF Clock, bus, vars, Clean
<1> QED
  BY <1>1, <1>2, <1>3, <1>4 DEF Next

-----------------------------------------------------------------------------
(* The parts of the invariant that do not speak of Clean.                  *)

LEMMA StepRecordGoesFirst == TypeOK /\ RecordGoesFirst /\ [Next]_vars => RecordGoesFirst'
<1> SUFFICES ASSUME TypeOK, RecordGoesFirst, [Next]_vars PROVE RecordGoesFirst'
  OBVIOUS
<1> USE DEF TypeOK, RecordGoesFirst, bus
<1>1. ASSUME NEW r \in Requests, RequestStep(r) PROVE RecordGoesFirst'
  BY <1>1 DEF RequestStep, Opens, Looks, Verifies, Judges, Refuses
<1>2. ASSUME NEW k \in Keys, Revoke(k) \/ ForgetCredential(k) PROVE RecordGoesFirst'
  <2>1. CASE Revoke(k)
    BY <2>1 DEF Revoke, ForgetsEverywhere
  <2>2. CASE ForgetCredential(k)
    BY <2>2 DEF ForgetCredential, ForgetsEverywhere
  <2> QED
    BY <1>2, <2>1, <2>2
<1>3. ASSUME NEW k \in Keys, Withdraw(k) \/ RouteAnswers(k) PROVE RecordGoesFirst'
  BY <1>3 DEF Withdraw, RouteAnswers
<1>4. ASSUME NEW k \in Keys, NEW p \in Pids, Forgets(k, p) \/ Confirms(k, p) \/ GivesUp(k, p)
      PROVE  RecordGoesFirst'
  BY <1>4 DEF Forgets, Confirms, GivesUp
<1>5. ASSUME NEW p \in Pids, ProcessStep(p) PROVE RecordGoesFirst'
  BY <1>5 DEF ProcessStep, Born, Joins, Dies, Lost
<1>6. CASE Clock \/ UNCHANGED vars
  BY <1>6 DEF Clock, vars
<1> QED
  BY <1>1, <1>2, <1>3, <1>4, <1>5, <1>6 DEF Next, WithdrawalStep

LEMMA StepGenerationsPass ==
  TypeOK /\ GenerationsPass /\ [Next]_vars => GenerationsPass'
<1> SUFFICES ASSUME TypeOK, GenerationsPass, [Next]_vars PROVE GenerationsPass'
  OBVIOUS
<1>0. ASSUME NEW r \in Requests, NEW x, req' = [req EXCEPT ![r] = x], UNCHANGED generation,
             x.at \in {"asked", "answered"} => x.gen <= generation[x.proc]
      PROVE  GenerationsPass'
  BY <1>0 DEF TypeOK, GenerationsPass
<1> USE DEF TypeOK, RequestType, GenerationsPass, bus
<1>1. ASSUME NEW r \in Requests, RequestStep(r) PROVE GenerationsPass'
  <2>1. ASSUME NEW q \in Processes, NEW k \in Keys, Opens(r, q, k) PROVE GenerationsPass'
    BY <2>1 DEF Opens, Idle
  <2>2. CASE Looks(r)
    <3>1. UNCHANGED generation
      BY <2>2 DEF Looks
    <3>2. CASE req' = [req EXCEPT ![r] = Idle]
      BY <1>0, <3>1, <3>2 DEF Idle
    <3>3. CASE req' # [req EXCEPT ![r] = Idle]
      <4>1. /\ req' = [req EXCEPT ![r] = req'[r]]
            /\ req'[r].gen = generation[req'[r].proc] /\ generation[req'[r].proc] \in Nat
        BY <2>2, <3>3 DEF Looks, Accepts
      <4> QED
        BY <1>0, <3>1, <4>1
    <3> QED
      BY <3>2, <3>3
  <2>3. CASE Verifies(r)
    BY <2>3 DEF Verifies
  <2>4. CASE Judges(r) \/ Refuses(r)
    <3>1. req' = [req EXCEPT ![r] = Idle] /\ UNCHANGED generation
      BY <2>4 DEF Judges, Accepts, Refuses
    <3> QED
      BY <1>0, <3>1 DEF Idle
  <2> QED
    BY <1>1, <2>1, <2>2, <2>3, <2>4 DEF RequestStep
<1>2. ASSUME NEW q \in Processes, NEW keys, ForgetsIn(q, keys), UNCHANGED req
      PROVE  GenerationsPass'
  BY <1>2 DEF ForgetsIn
<1>3. ASSUME NEW k \in Keys, WithdrawalStep(k) PROVE GenerationsPass'
  <2>1. CASE Revoke(k) \/ ForgetCredential(k)
    BY <1>2, <2>1 DEF Revoke, ForgetCredential, ForgetsEverywhere, Processes
  <2>2. CASE Withdraw(k) \/ RouteAnswers(k)
    BY <2>2 DEF Withdraw, RouteAnswers
  <2>3. ASSUME NEW p \in Pids, Forgets(k, p) PROVE GenerationsPass'
    BY <1>2, <2>3 DEF Forgets, Processes
  <2>4. ASSUME NEW p \in Pids, Confirms(k, p) \/ GivesUp(k, p) PROVE GenerationsPass'
    BY <2>4 DEF Confirms, GivesUp
  <2> QED
    BY <1>3, <2>1, <2>2, <2>3, <2>4 DEF WithdrawalStep
<1>4. ASSUME NEW p \in Pids, ProcessStep(p) PROVE GenerationsPass'
  BY <1>4 DEF ProcessStep, Born, Joins, Dies, Lost
<1>5. CASE Clock \/ UNCHANGED vars
  BY <1>5 DEF Clock, vars
<1> QED
  BY <1>1, <1>3, <1>4, <1>5 DEF Next

LEMMA StepCallsFollowRoute ==
  TypeOK /\ RecordGoesFirst /\ CallsFollowRoute /\ [Next]_vars => CallsFollowRoute'
<1> SUFFICES ASSUME TypeOK, RecordGoesFirst, CallsFollowRoute, [Next]_vars
             PROVE  CallsFollowRoute'
  OBVIOUS
<1> USE DEF TypeOK, CallsFollowRoute, bus
<1>1. ASSUME NEW r \in Requests, RequestStep(r) PROVE CallsFollowRoute'
  BY <1>1 DEF RequestStep, Opens, Looks, Verifies, Judges, Refuses
<1>2. ASSUME NEW k \in Keys, WithdrawalStep(k) PROVE CallsFollowRoute'
  <2>1. CASE Revoke(k) \/ ForgetCredential(k)
    BY <2>1 DEF Revoke, ForgetCredential, ForgetsEverywhere
  <2>2. CASE Withdraw(k)
    BY <2>2 DEF Withdraw
  <2>3. CASE RouteAnswers(k)
    BY <2>3 DEF RouteAnswers
  <2>4. ASSUME NEW p \in Pids, Forgets(k, p) \/ Confirms(k, p) \/ GivesUp(k, p)
        PROVE  CallsFollowRoute'
    BY <2>4 DEF Forgets, Confirms, GivesUp
  <2> QED
    BY <1>2, <2>1, <2>2, <2>3, <2>4 DEF WithdrawalStep
<1>3. ASSUME NEW p \in Pids, ProcessStep(p) PROVE CallsFollowRoute'
  BY <1>3 DEF ProcessStep, Born, Joins, Dies, Lost
<1>4. CASE Clock \/ UNCHANGED vars
  BY <1>4 DEF Clock, vars
<1> QED
  BY <1>1, <1>2, <1>3, <1>4 DEF Next

LEMMA StepNewIsEmpty == TypeOK /\ NewIsEmpty /\ [Next]_vars => NewIsEmpty'
<1> SUFFICES ASSUME TypeOK, NewIsEmpty, [Next]_vars PROVE NewIsEmpty'
  OBVIOUS
<1> USE NamesAssumption DEF NewIsEmpty, bus
<1>1. ASSUME NEW r \in Requests, RequestStep(r) PROVE NewIsEmpty'
  <2>1. ASSUME NEW q \in Processes, NEW k \in Keys, Opens(r, q, k) PROVE NewIsEmpty'
    BY <2>1 DEF TypeOK, Opens, Idle
  <2>2. CASE Looks(r)
    <3>1. /\ \A o \in Requests : o # r => req'[o] = req[o]
          /\ req[r].at # "idle"
          /\ req'[r].at = "idle" \/ req'[r].proc = req[r].proc
      BY <2>2 DEF TypeOK, RequestType, Looks, Accepts, Idle
    <3>2. UNCHANGED <<cache, bus>>
      BY <2>2 DEF Looks
    <3> QED
      BY <3>1, <3>2
  <2>3. CASE Verifies(r)
    BY <2>3 DEF TypeOK, RequestType, Verifies
  <2>4. CASE Judges(r)
    BY <2>4 DEF TypeOK, RequestType, Judges, Accepts, Running, Idle
  <2>5. CASE Refuses(r)
    BY <2>5 DEF TypeOK, Refuses, Idle
  <2> QED
    BY <1>1, <2>1, <2>2, <2>3, <2>4, <2>5 DEF RequestStep
<1>2. ASSUME NEW k \in Keys, WithdrawalStep(k) PROVE NewIsEmpty'
  <2>1. CASE Revoke(k) \/ ForgetCredential(k)
    <3>1. UNCHANGED <<life, pid, req>>
      BY <2>1 DEF Revoke, ForgetCredential
    <3>2. \A p \in Pids : cache'[p] = cache[p]
      BY <2>1 DEF TypeOK, Revoke, ForgetCredential, ForgetsEverywhere, ForgetsIn, Processes
    <3>3. \A p \in Pids, j \in Keys :
            forget'[j][p] = IF j # k THEN forget[j][p] ELSE IF p = pid THEN "sent" ELSE "none"
      BY <2>1 DEF TypeOK, Revoke, ForgetCredential, ForgetsEverywhere
    <3> QED
      BY <3>1, <3>2, <3>3
  <2>2. CASE Withdraw(k) \/ RouteAnswers(k)
    BY <2>2 DEF Withdraw, RouteAnswers
  <2>3. ASSUME NEW p \in Pids, Forgets(k, p) PROVE NewIsEmpty'
    BY <2>3 DEF TypeOK, Forgets, ForgetsIn, Processes
  <2>4. ASSUME NEW p \in Pids, Confirms(k, p) PROVE NewIsEmpty'
    BY <2>4 DEF TypeOK, Confirms
  <2>5. ASSUME NEW p \in Pids, GivesUp(k, p) PROVE NewIsEmpty'
    BY <2>5 DEF TypeOK, GivesUp
  <2> QED
    BY <1>2, <2>1, <2>2, <2>3, <2>4, <2>5 DEF WithdrawalStep
<1>3. ASSUME NEW p \in Pids, ProcessStep(p) PROVE NewIsEmpty'
  <2>1. CASE Born(p)
    BY <2>1 DEF TypeOK, Born
  <2>2. CASE Joins(p)
    BY <2>2 DEF TypeOK, Joins
  <2>3. CASE Dies(p)
    BY <2>3 DEF TypeOK, Dies
  <2>4. CASE Lost(p)
    BY <2>4 DEF TypeOK, Lost
  <2> QED
    BY <1>3, <2>1, <2>2, <2>3, <2>4 DEF ProcessStep
<1>4. CASE Clock \/ UNCHANGED vars
  BY <1>4 DEF Clock, vars
<1> QED
  BY <1>1, <1>2, <1>3, <1>4 DEF Next

-----------------------------------------------------------------------------
(* Where a credential was forgotten.                                       *)

\* Whatever the step, a process that is clean of a withdrawn credential
\* stays so, and a withdrawn credential stays withdrawn.
LEMMA WithdrawnStaysClean ==
  ASSUME TypeOK, GenerationsPass, RecordGoesFirst, [Next]_vars,
         NEW q \in Processes, NEW k \in Keys, route[k] # "idle", Clean(q, k)
  PROVE  Clean(q, k)'
BY CleanIsStable DEF RecordGoesFirst

\* The call that begins cleans the server, and is sent to who is addressed.
LEMMA CallForgets ==
  ASSUME IInv, NEW k \in Keys, Revoke(k) \/ ForgetCredential(k)
  PROVE  /\ Clean(Server, k)'
         /\ route' = [route EXCEPT ![k] = "waiting"] /\ UNCHANGED <<pid, life, req>>
         /\ forget' = [forget EXCEPT ![k] =
                         [p \in Pids |-> IF p = pid THEN "sent" ELSE "none"]]
<1>1. PICK keys \in SUBSET Keys : k \in keys /\ ForgetsEverywhere(k, keys)
  BY DEF Revoke, ForgetCredential
<1>2. UNCHANGED <<pid, life, req>>
  BY DEF Revoke, ForgetCredential
<1>3. Clean(Server, k)'
  BY <1>1, <1>2, ForgettingCleans DEF IInv, ForgetsEverywhere, Processes
<1> QED
  BY <1>1, <1>2, <1>3 DEF ForgetsEverywhere

LEMMA StepForgottenWhereAddressed == IInv /\ [Next]_vars => ForgottenWhereAddressed'
<1> SUFFICES ASSUME IInv, [Next]_vars, NEW k \in Keys, route'[k] # "idle"
             PROVE  Forgotten(k)'
  BY DEF ForgottenWhereAddressed
<1>0. ASSUME NEW q \in Processes, route[k] # "idle", Clean(q, k) PROVE Clean(q, k)'
  BY <1>0, WithdrawnStaysClean DEF IInv

\* What a step has to show that is not the first of the call.
<1>1. ASSUME route[k] # "idle",
             \A p \in Pids : pid' = p /\ forget'[k][p] # "sent" =>
               Clean(p, k) \/ Clean(p, k)',
             route'[k] = "answered" => \A p \in Pids : forget'[k][p] = "none"
      PROVE  Forgotten(k)'
  <2>1. Clean(Server, k)'
    BY <1>0, <1>1 DEF IInv, ForgottenWhereAddressed, Forgotten, Processes
  <2>2. ASSUME NEW p \in Pids, pid' = p, forget'[k][p] # "sent" PROVE Clean(p, k)'
    BY <1>0, <1>1, <2>2 DEF Processes
  <2> QED
    BY <1>1, <2>1, <2>2 DEF Forgotten
<1>2. route[k] # "idle" => Forgotten(k)
  BY DEF IInv, ForgottenWhereAddressed

\* A step that touches neither who is addressed nor the calls for k.
<1>3. ASSUME pid' = pid, route'[k] = route[k], forget'[k] = forget[k] PROVE Forgotten(k)'
  BY <1>1, <1>2, <1>3 DEF Forgotten
<1>4. ASSUME NEW j \in Keys, Revoke(j) \/ ForgetCredential(j) PROVE Forgotten(k)'
  <2>1. CASE j = k
    <3>1. /\ Clean(Server, k)' /\ route'[k] = "waiting"
          /\ \A p \in Pids : pid' = p => forget'[k][p] = "sent"
      BY <1>4, <2>1, CallForgets DEF IInv, TypeOK
    <3> QED
      BY <3>1 DEF Forgotten
  <2>2. CASE j # k
    <3>1. route'[k] = route[k] /\ forget'[k] = forget[k] /\ pid' = pid
      BY <1>4, <2>2, CallForgets DEF IInv, TypeOK
    <3> QED
      BY <1>3, <3>1
  <2> QED
    BY <2>1, <2>2
<1>5. ASSUME NEW j \in Keys, RouteAnswers(j) PROVE Forgotten(k)'
  <2>1. route[k] # "idle" /\ pid' = pid /\ forget' = forget
    BY <1>5 DEF RouteAnswers, IInv, TypeOK
  <2>2. route'[k] = "answered" => \A p \in Pids : forget[k][p] = "none"
    BY <1>2, <1>5, <2>1 DEF RouteAnswers, IInv, TypeOK, Forgotten
  <2> QED
    BY <1>1, <1>2, <2>1, <2>2 DEF Forgotten
<1>6. ASSUME NEW j \in Keys, NEW p \in Pids, Forgets(j, p) PROVE Forgotten(k)'
  <2>1. route[k] # "idle" /\ pid' = pid /\ route' = route /\ req' = req
    BY <1>6 DEF Forgets
  <2>2. CASE j = k
    <3>1. Clean(p, k)'
      BY <1>6, <2>1, <2>2, ForgettingCleans
      DEF Forgets, IInv, TypeOK, Processes, RecordGoesFirst
    <3>2. route[k] = "waiting"
      BY <1>6, <2>2 DEF Forgets, IInv, CallsFollowRoute
    <3>3. \A o \in Pids : o # p => forget'[k][o] = forget[k][o]
      BY <1>6, <2>2 DEF Forgets, IInv, TypeOK
    <3> QED
      BY <1>1, <1>2, <2>1, <3>1, <3>2, <3>3 DEF Forgotten
  <2>3. CASE j # k
    BY <1>3, <1>6, <2>1, <2>3 DEF Forgets, IInv, TypeOK
  <2> QED
    BY <2>2, <2>3
<1>7. ASSUME NEW j \in Keys, NEW p \in Pids, Confirms(j, p) \/ GivesUp(j, p)
      PROVE  Forgotten(k)'
  <2>1. route[k] # "idle" /\ route' = route
    BY <1>7 DEF Confirms, GivesUp
  <2>2. \A o \in Pids : /\ pid' = o => pid = o
                        /\ pid' = o /\ forget'[k][o] # "sent" => forget[k][o] # "sent"
                        /\ forget[k][o] = "none" => forget'[k][o] = "none"
    <3>1. CASE Confirms(j, p)
      BY <3>1 DEF Confirms, IInv, TypeOK
    <3>2. CASE GivesUp(j, p)
      BY <3>2, NamesAssumption DEF GivesUp, IInv, TypeOK
    <3> QED
      BY <1>7, <3>1, <3>2
  <2> QED
    BY <1>1, <1>2, <2>1, <2>2 DEF Forgotten
<1>8. ASSUME NEW p \in Pids, ProcessStep(p) PROVE Forgotten(k)'
  <2>1. route[k] # "idle" /\ route' = route /\ forget' = forget
    BY <1>8 DEF ProcessStep, Born, Joins, Dies, Lost
  <2>2. CASE Joins(p)
    <3>1. Clean(p, k)
      BY <2>2 DEF Joins, IInv, TypeOK, NewIsEmpty, Clean
    <3>2. pid' = p
      BY <2>2 DEF Joins
    <3> QED
      BY <1>1, <1>2, <2>1, <3>1, <3>2 DEF Forgotten
  <2>3. CASE ~Joins(p)
    <3>1. \A o \in Pids : pid' = o => pid = o
      BY <1>8, <2>3, NamesAssumption DEF ProcessStep, Born, Dies, Lost
    <3> QED
      BY <1>1, <1>2, <2>1, <3>1 DEF Forgotten
  <2> QED
    BY <2>2, <2>3
<1>9. ASSUME NEW r \in Requests, RequestStep(r) PROVE UNCHANGED <<pid, route, forget>>
  BY <1>9 DEF RequestStep, Opens, Looks, Verifies, Judges, Refuses, bus
<1>10. ASSUME NEW j \in Keys, Withdraw(j) PROVE UNCHANGED <<pid, route, forget>>
  BY <1>10 DEF Withdraw, bus
<1>11. CASE Clock \/ UNCHANGED vars
  BY <1>3, <1>11 DEF Clock, vars, bus
<1> QED
  BY <1>3, <1>4, <1>5, <1>6, <1>7, <1>8, <1>9, <1>10, <1>11 DEF Next, WithdrawalStep

-----------------------------------------------------------------------------
(* What is let in.                                                         *)

\* A route that has answered stays so, and its credential is gone.
LEMMA AnsweredStays ==
  ASSUME TypeOK, RecordGoesFirst, [Next]_vars, NEW k \in Keys, route[k] = "answered"
  PROVE  route'[k] = "answered" /\ ~valid[k]
<1>1. ~valid[k]
  BY DEF RecordGoesFirst
<1> USE DEF TypeOK, bus
<1>2. ASSUME NEW r \in Requests, RequestStep(r) PROVE route' = route
  BY <1>2 DEF RequestStep, Opens, Looks, Verifies, Judges, Refuses
<1>3. ASSUME NEW j \in Keys, WithdrawalStep(j) PROVE route'[k] = "answered"
  <2>1. CASE Revoke(j) \/ ForgetCredential(j)
    BY <1>1, <2>1 DEF Revoke, ForgetCredential, ForgetsEverywhere
  <2>2. CASE Withdraw(j) \/ RouteAnswers(j)
    BY <2>2 DEF Withdraw, RouteAnswers
  <2>3. ASSUME NEW p \in Pids, Forgets(j, p) \/ Confirms(j, p) \/ GivesUp(j, p)
        PROVE  route'[k] = "answered"
    BY <2>3 DEF Forgets, Confirms, GivesUp
  <2> QED
    BY <1>3, <2>1, <2>2, <2>3 DEF WithdrawalStep
<1>4. ASSUME NEW p \in Pids, ProcessStep(p) PROVE route' = route
  BY <1>4 DEF ProcessStep, Born, Joins, Dies, Lost
<1>5. CASE Clock \/ UNCHANGED vars
  BY <1>1, <1>5 DEF Clock, vars
<1> QED
  BY <1>1, <1>2, <1>3, <1>4, <1>5 DEF Next

\* A request that a step leaves where it is stays in a clean process.
LEMMA LateKept ==
  ASSUME IInv, [Next]_vars, NEW r \in Requests,
         req'[r].at # "idle" =>
           /\ req[r].at # "idle"
           /\ req'[r].proc = req[r].proc /\ req'[r].key = req[r].key
           /\ req'[r].late = req[r].late
           /\ req[r].late => ~req'[r].good
  PROVE  LateOf(r)'
<1> SUFFICES ASSUME req'[r].at # "idle", req'[r].late
             PROVE  /\ route'[req'[r].key] = "answered"
                    /\ Clean(req[r].proc, req[r].key)'
                    /\ ~req'[r].good
  BY DEF LateOf
<1>1. req[r].key \in Keys /\ req[r].proc \in Processes
  BY DEF IInv, TypeOK, RequestType
<1>2. route[req[r].key] = "answered" /\ Clean(req[r].proc, req[r].key)
  BY DEF IInv, LateIsClean, LateOf
<1>3. ASSUME NEW q \in Processes, NEW k \in Keys, req[r].proc = q, req[r].key = k
      PROVE  Clean(q, k)'
  BY <1>2, <1>3, WithdrawnStaysClean DEF IInv
<1>4. PICK q \in Processes, k \in Keys : req[r].proc = q /\ req[r].key = k /\ Clean(q, k)'
  BY <1>1, <1>3
<1>5. req'[r].proc = q /\ req'[r].key = k
  BY <1>4
<1> QED
  BY <1>1, <1>2, <1>4, <1>5, AnsweredStays DEF IInv, Clean

LEMMA StepLateIsClean == IInv /\ [Next]_vars => LateIsClean'
<1> SUFFICES ASSUME IInv, [Next]_vars, NEW r \in Requests PROVE LateOf(r)'
  BY DEF LateIsClean
<1>1. ASSUME req'[r] = req[r] PROVE LateOf(r)'
  BY <1>1, LateKept DEF IInv, LateIsClean, LateOf
<1>2. ASSUME NEW q \in Processes, NEW k \in Keys, Opens(r, q, k) PROVE LateOf(r)'
  <2>1. /\ req'[r].proc = q /\ req'[r].key = k /\ ~req'[r].good
        /\ req'[r].late => route[k] = "answered"
        /\ route' = route
    BY <1>2 DEF Opens, IInv, TypeOK, Idle, bus
  <2>2. ASSUME route[k] = "answered" PROVE Clean(q, k)
    <3>1. CASE q = Server
      BY <2>2, <3>1 DEF IInv, ForgottenWhereAddressed, Forgotten
    <3>2. CASE q \in Pids
      BY <1>2, <2>2, <3>2 DEF Opens, IInv, ForgottenWhereAddressed, Forgotten
    <3> QED
      BY <3>1, <3>2 DEF Processes
  <2>3. ASSUME route[k] = "answered" PROVE Clean(q, k)'
    BY <2>2, <2>3, WithdrawnStaysClean DEF IInv
  <2> QED
    BY <2>1, <2>3 DEF LateOf, Clean
<1>3. CASE Looks(r)
  <2>1. req'[r].at # "idle" =>
          /\ req[r].at # "idle"
          /\ req'[r].proc = req[r].proc /\ req'[r].key = req[r].key
          /\ req'[r].late = req[r].late /\ req'[r].good = req[r].good
    BY <1>3 DEF Looks, Accepts, IInv, TypeOK, RequestType, Idle
  <2> QED
    BY <2>1, LateKept DEF IInv, LateIsClean, LateOf
<1>4. CASE Verifies(r)
  <2>1. /\ req[r].at # "idle" /\ req[r].key \in Keys
        /\ req'[r].proc = req[r].proc /\ req'[r].key = req[r].key
        /\ req'[r].late = req[r].late
        /\ req'[r].good => valid[req[r].key]
    BY <1>4 DEF Verifies, IInv, TypeOK, RequestType
  <2>2. req[r].late => ~valid[req[r].key]
    BY <2>1 DEF IInv, LateIsClean, LateOf, RecordGoesFirst
  <2> QED
    BY <2>1, <2>2, LateKept
<1>5. CASE Judges(r) \/ Refuses(r)
  BY <1>5 DEF Judges, Accepts, Refuses, IInv, TypeOK, Idle, LateOf
<1>6. ASSUME NEW o \in Requests, RequestStep(o) PROVE LateOf(r)'
  <2>1. CASE o = r
    BY <1>2, <1>3, <1>4, <1>5, <1>6, <2>1 DEF RequestStep
  <2>2. CASE o # r
    BY <1>1, <1>6, <2>2
    DEF RequestStep, Opens, Looks, Verifies, Judges, Refuses, Accepts, IInv, TypeOK
  <2> QED
    BY <2>1, <2>2
<1>7. ASSUME NEW k \in Keys, WithdrawalStep(k) PROVE req' = req
  BY <1>7
  DEF WithdrawalStep, Revoke, Withdraw, ForgetCredential, RouteAnswers, Forgets, Confirms, GivesUp
<1>8. ASSUME NEW p \in Pids, ProcessStep(p) PROVE req' = req
  BY <1>8 DEF ProcessStep, Born, Joins, Dies, Lost
<1>9. CASE Clock \/ UNCHANGED vars
  BY <1>1, <1>9 DEF Clock, vars
<1> QED
  BY <1>1, <1>6, <1>7, <1>8, <1>9 DEF Next

\* Who lets a request in: the cache, or a good answer.
LEMMA WhoIsAccepted ==
  ASSUME IInv, [Next]_vars, NEW a \in accepted', a \notin accepted
  PROVE  \E r \in Requests :
           /\ req[r].key \in Keys /\ req[r].proc \in Processes
           /\ a.late = req[r].late
           /\ \/ /\ req[r].at = "opened" /\ cache[req[r].proc][req[r].key] > now
                 /\ a.fresh = (now < Expires[req[r].key])
              \/ req[r].at = "answered" /\ req[r].good /\ a.fresh = req[r].fresh
<1>1. PICK r \in Requests : Looks(r) \/ Judges(r)
  BY DEF Next, RequestStep, Opens, Verifies, Refuses, WithdrawalStep, Revoke, Withdraw,
         ForgetCredential, RouteAnswers, Forgets, Confirms, GivesUp, ProcessStep, Born, Joins,
         Dies, Lost, Clock, vars
<1>2. req[r].key \in Keys /\ req[r].proc \in Processes
  BY <1>1 DEF Looks, Judges, IInv, TypeOK, RequestType
<1>3. CASE Looks(r)
  BY <1>2, <1>3 DEF Looks, Accepts
<1>4. CASE Judges(r)
  BY <1>2, <1>4 DEF Judges, Accepts
<1> QED
  BY <1>1, <1>3, <1>4

LEMMA StepWithdrawnIsRefused == IInv /\ [Next]_vars => WithdrawnIsRefused'
<1> SUFFICES ASSUME IInv, [Next]_vars, NEW a \in accepted' PROVE ~a.late
  BY DEF WithdrawnIsRefused
<1>1. CASE a \in accepted
  BY <1>1 DEF IInv, WithdrawnIsRefused
<1>2. CASE a \notin accepted
  <2>1. PICK r \in Requests :
          /\ a.late = req[r].late
          /\ \/ req[r].at = "opened" /\ cache[req[r].proc][req[r].key] > now
             \/ req[r].at = "answered" /\ req[r].good
    BY <1>2, WhoIsAccepted
  <2>2. req[r].late => ~req[r].good /\ cache[req[r].proc][req[r].key] = 0
    BY <2>1 DEF IInv, LateIsClean, LateOf, Clean
  <2> QED
    BY <2>1, <2>2 DEF IInv, TypeOK
<1> QED
  BY <1>1, <1>2

LEMMA StepExpiredIsRefused == IInv /\ [Next]_vars => ExpiredIsRefused'
<1> SUFFICES ASSUME IInv, [Next]_vars, NEW a \in accepted' PROVE a.fresh
  BY DEF ExpiredIsRefused
<1>1. CASE a \in accepted
  BY <1>1 DEF IInv, ExpiredIsRefused
<1>2. CASE a \notin accepted
  <2>1. PICK r \in Requests :
          /\ req[r].key \in Keys /\ req[r].proc \in Processes
          /\ \/ /\ req[r].at = "opened" /\ cache[req[r].proc][req[r].key] > now
                /\ a.fresh = (now < Expires[req[r].key])
             \/ req[r].at = "answered" /\ req[r].good /\ a.fresh = req[r].fresh
    BY <1>2, WhoIsAccepted
  <2>2. CASE cache[req[r].proc][req[r].key] > now /\ a.fresh = (now < Expires[req[r].key])
    <3>1. now < Expires[req[r].key]
      BY <2>1, <2>2, KeysAssumption, TimeAssumption DEF IInv, TypeOK, ExpiryCounts
    <3> QED
      BY <2>2, <3>1, Zenon
  <2>3. CASE req[r].at = "answered" /\ req[r].good /\ a.fresh = req[r].fresh
    BY <2>3 DEF IInv, ExpiryCounts
  <2> QED
    BY <2>1, <2>2, <2>3
<1> QED
  BY <1>1, <1>2

LEMMA StepExpiryCounts == IInv /\ [Next]_vars => ExpiryCounts'
<1> SUFFICES ASSUME IInv, [Next]_vars PROVE ExpiryCounts'
  OBVIOUS
<1> DEFINE Cached  == \A q \in Processes, k \in Keys : cache[q][k] <= Expires[k]
           Young(r) ==
             /\ req[r].at \in {"asked", "answered"} /\ ~req[r].fresh
                  => now >= Expires[req[r].key]
             /\ req[r].at = "answered" /\ req[r].good => req[r].fresh
<1>0. Cached /\ \A r \in Requests : Young(r)
  BY DEF IInv, ExpiryCounts
<1>1. ASSUME NEW r \in Requests, RequestStep(r) PROVE Cached' /\ now' = now
  <2>1. CASE Judges(r)
    <3>1. req[r].key \in Keys /\ req[r].proc \in Processes
      BY <2>1 DEF Judges, IInv, TypeOK, RequestType
    <3>2. now + Lifetime(req[r].key) <= Expires[req[r].key]
      BY <3>1, LifetimeBound DEF IInv
    <3> QED
      BY <1>0, <2>1, <3>1, <3>2 DEF Judges, IInv, TypeOK
  <2>2. CASE ~Judges(r)
    BY <1>0, <1>1, <2>2 DEF RequestStep, Opens, Looks, Verifies, Refuses
  <2> QED
    BY <2>1, <2>2
<1>2. ASSUME NEW r \in Requests, RequestStep(r), NEW o \in Requests PROVE Young(o)'
  <2>1. CASE o # r
    BY <1>0, <1>1, <1>2, <2>1
    DEF RequestStep, Opens, Looks, Verifies, Judges, Refuses, Accepts, IInv, TypeOK
  <2>2. CASE o = r
    <3> USE <2>2
    <3>1. CASE Looks(r)
      <4>1. CASE req'[r].at = "idle"
        BY <4>1
      <4>2. CASE req'[r].at # "idle"
        <5>1. /\ req'[r].at = "asked" /\ req'[r].key = req[r].key /\ now' = now
              /\ req'[r].fresh = (now < Expires[req[r].key])
              /\ req[r].key \in Keys
          BY <3>1, <4>2 DEF Looks, Accepts, IInv, TypeOK, RequestType, Idle
        <5>2. ~(now < Expires[req[r].key]) => now >= Expires[req[r].key]
          BY <5>1, KeysAssumption DEF IInv, TypeOK
        <5> QED
          BY <5>1, <5>2, Zenon
      <4> QED
        BY <4>1, <4>2
    <3>2. CASE Verifies(r)
      <4>1. /\ req'[r].at = "answered" /\ req'[r].key = req[r].key /\ now' = now
            /\ req'[r].fresh = req[r].fresh
            /\ req'[r].good => now < Expires[req[r].key]
            /\ req[r].key \in Keys /\ req[r].at = "asked"
        BY <3>2 DEF Verifies, IInv, TypeOK, RequestType
      <4>2. ~(now < Expires[req[r].key] /\ now >= Expires[req[r].key])
        BY <4>1, KeysAssumption DEF IInv, TypeOK
      <4> QED
        BY <1>0, <4>1, <4>2
    <3>3. ASSUME NEW q \in Processes, NEW k \in Keys, Opens(r, q, k) PROVE Young(r)'
      BY <3>3 DEF Opens, IInv, TypeOK, Idle
    <3>4. CASE Judges(r) \/ Refuses(r)
      BY <3>4 DEF Judges, Accepts, Refuses, IInv, TypeOK, Idle
    <3> QED
      BY <1>2, <3>1, <3>2, <3>3, <3>4 DEF RequestStep
  <2> QED
    BY <2>1, <2>2
<1>3. ASSUME NEW q \in Processes, NEW keys \in SUBSET Keys, ForgetsIn(q, keys) PROVE Cached'
  BY <1>0, <1>3, KeysAssumption DEF ForgetsIn, IInv, TypeOK
<1>4. ASSUME NEW k \in Keys, WithdrawalStep(k) PROVE Cached' /\ UNCHANGED <<req, now>>
  <2>1. CASE Revoke(k) \/ ForgetCredential(k)
    <3>1. PICK keys \in SUBSET Keys : ForgetsIn(Server, keys)
      BY <2>1 DEF Revoke, ForgetCredential, ForgetsEverywhere
    <3> QED
      BY <1>3, <2>1, <3>1 DEF Revoke, ForgetCredential, Processes
  <2>2. CASE Withdraw(k) \/ RouteAnswers(k)
    BY <1>0, <2>2 DEF Withdraw, RouteAnswers
  <2>3. ASSUME NEW p \in Pids, Forgets(k, p) PROVE Cached' /\ UNCHANGED <<req, now>>
    BY <1>3, <2>3 DEF Forgets, IInv, TypeOK, Processes
  <2>4. ASSUME NEW p \in Pids, Confirms(k, p) \/ GivesUp(k, p)
        PROVE  Cached' /\ UNCHANGED <<req, now>>
    BY <1>0, <2>4 DEF Confirms, GivesUp
  <2> QED
    BY <1>4, <2>1, <2>2, <2>3, <2>4 DEF WithdrawalStep
<1>5. ASSUME NEW p \in Pids, ProcessStep(p) PROVE Cached' /\ UNCHANGED <<req, now>>
  <2>1. CASE Dies(p)
    BY <1>0, <2>1, KeysAssumption DEF Dies, IInv, TypeOK
  <2>2. CASE Born(p) \/ Joins(p) \/ Lost(p)
    BY <1>0, <2>2 DEF Born, Joins, Lost
  <2> QED
    BY <1>5, <2>1, <2>2 DEF ProcessStep
<1>6. CASE Clock
  <2>1. Cached' /\ req' = req /\ now' = now + 1
    BY <1>0, <1>6 DEF Clock
  <2>2. ASSUME NEW r \in Requests PROVE Young(r)'
    BY <1>0, <2>1, KeysAssumption DEF IInv, TypeOK
  <2> QED
    BY <2>1, <2>2 DEF ExpiryCounts
<1>7. CASE UNCHANGED vars
  BY <1>0, <1>7 DEF vars, ExpiryCounts
<1>8. ASSUME Cached', UNCHANGED <<req, now>> PROVE ExpiryCounts'
  BY <1>0, <1>8 DEF ExpiryCounts
<1> QED
  BY <1>1, <1>2, <1>4, <1>5, <1>6, <1>7, <1>8 DEF Next, ExpiryCounts

-----------------------------------------------------------------------------
(* The invariant, and the theorems.                                        *)

LEMMA InitInvariant == Init => IInv
<1> SUFFICES ASSUME Init PROVE IInv
  OBVIOUS
<1>1. TypeOK
  BY InitTypeOK
<1>2. RecordGoesFirst /\ CallsFollowRoute /\ ForgottenWhereAddressed
  BY DEF Init, RecordGoesFirst, CallsFollowRoute, ForgottenWhereAddressed
<1>3. GenerationsPass /\ LateIsClean
  BY DEF Init, Idle, GenerationsPass, LateIsClean, LateOf
<1>4. NewIsEmpty
  BY NamesAssumption DEF Init, Idle, NewIsEmpty, Processes
<1>5. ExpiryCounts
  BY KeysAssumption DEF Init, Idle, ExpiryCounts
<1>6. WithdrawnIsRefused /\ ExpiredIsRefused
  BY DEF Init, WithdrawnIsRefused, ExpiredIsRefused
<1> QED
  BY <1>1, <1>2, <1>3, <1>4, <1>5, <1>6 DEF IInv

LEMMA StepInvariant == IInv /\ [Next]_vars => IInv'
BY StepTypeOK, StepRecordGoesFirst, StepGenerationsPass, StepNewIsEmpty, StepCallsFollowRoute,
   StepForgottenWhereAddressed, StepLateIsClean, StepWithdrawnIsRefused, StepExpiryCounts,
   StepExpiredIsRefused
DEF IInv

LEMMA Invariant == Spec => []IInv
BY InitInvariant, StepInvariant, PTL DEF Spec

\* Once the route that withdraws a credential has answered, no new request
\* accepts it, in the server or in any process.
THEOREM WithdrawnStaysRefused == Spec => []WithdrawnIsRefused
<1>1. IInv => WithdrawnIsRefused
  BY DEF IInv
<1> QED
  BY <1>1, Invariant, PTL

\* A cached avatar never outlives its credential.
THEOREM ExpiredStaysRefused == Spec => []ExpiredIsRefused
<1>1. IInv => ExpiredIsRefused
  BY DEF IInv
<1> QED
  BY <1>1, Invariant, PTL

\* No request is accepted on a credential that was withdrawn or has expired:
\* the three above together.
THEOREM AcceptedWasValid == Spec => []OnlyValidIsAccepted
BY TypeCorrect, WithdrawnStaysRefused, ExpiredStaysRefused, PTL DEF OnlyValidIsAccepted

-----------------------------------------------------------------------------
(***************************************************************************)
(* The records (UserAccounts), for any identities, pool threads, bodies    *)
(* and policy. While it is alone at its identity a call knows the record   *)
(* there, so that what it counts is what the store counts; in company, the *)
(* identity is one of the overlapped, and a call is sure only of the       *)
(* records of its own time.                                                *)
(***************************************************************************)
MaybeRecords == {None} \cup Records

LoginCalls ==
  [op: {"login"}, who: Identities, seen: MaybeRecords, pw: Passwords,
   found: MaybeRecords, step: {"reads", "verified"}]
AdminCalls ==
  [op: {"create_user", "save", "set_password"}, who: Identities, seen: MaybeRecords,
   body: Bodies]
DeleteCalls == [op: {"delete"}, who: Identities, seen: MaybeRecords]
HandlerCalls == LoginCalls \cup AdminCalls \cup DeleteCalls

AccountsTyped ==
  /\ store \in [Identities -> MaybeRecords]
  /\ clock \in 0..MaxNow /\ calls \in 0..MaxCalls /\ crashes \in 0..MaxCrashes
  /\ task \in [Tasks -> {NoCall} \cup HandlerCalls]
  /\ since \in [Tasks -> SUBSET MaybeRecords]
  /\ overlapped \subseteq Identities /\ failures \in [Identities -> Nat]

\* What a call that is at an identity may count on.
Remembers(t) ==
  /\ Busy(t) => {task[t].seen, store[task[t].who]} \subseteq since[t]
  /\ ~Busy(t) => since[t] = {}

\* The password was judged on a record of the call's own time.
Judged(t) ==
  task[t].op = "login" /\ task[t].found # None =>
    /\ task[t].step = "verified"
    /\ task[t].found \in since[t]
    /\ task[t].found.enabled /\ task[t].found.pw = task[t].pw

\* The section refused what its operation cannot do.
Admitted(t) ==
  /\ task[t].op \in {"save", "set_password"} => task[t].seen # None
  /\ task[t].op = "create_user" => task[t].seen = None
  /\ task[t].op \in {"create_user", "set_password"} => MatchedPassword(task[t].body) # None

\* Alone at an identity, a call knows its record; in company, the identity is
\* one of the overlapped.
Together(t, u) ==
  t # u /\ Busy(t) /\ Busy(u) /\ task[t].who = task[u].who => task[t].who \in overlapped
Undisturbed(t) ==
  Busy(t) /\ task[t].who \notin overlapped =>
    /\ task[t].seen = store[task[t].who]
    /\ task[t].op = "login" /\ task[t].found # None => task[t].found = store[task[t].who]

CallHolds(t) == Remembers(t) /\ Judged(t) /\ Admitted(t) /\ Undisturbed(t)

AccountsInv ==
  /\ AccountsTyped
  /\ \A t \in Tasks : CallHolds(t)
  /\ \A t, u \in Tasks : Together(t, u)
  /\ LockoutHolds

-----------------------------------------------------------------------------
(* The records a handler writes.                                           *)

LEMMA UpdatesRecord ==
  ASSUME NEW r \in Records, NEW fields,
         "pw" \in DOMAIN fields => fields["pw"] \in Passwords,
         "enabled" \in DOMAIN fields => fields["enabled"] \in BOOLEAN,
         "failed" \in DOMAIN fields => fields["failed"] \in Nat,
         "last" \in DOMAIN fields => fields["last"] \in Nat
  PROVE  /\ Update(r, fields) \in Records
         /\ \A f \in {"pw", "enabled", "failed", "last"} :
              Update(r, fields)[f] = IF f \in DOMAIN fields THEN fields[f] ELSE r[f]
  BY DEF Update, Records

LEMMA KeptMetadata ==
  ASSUME NEW b \in Bodies
  PROVE  /\ DOMAIN MetadataOf(b) \subseteq {"enabled", "failed", "last"}
         /\ "enabled" \in DOMAIN MetadataOf(b) => MetadataOf(b)["enabled"] \in BOOLEAN
         /\ "failed" \in DOMAIN MetadataOf(b) => MetadataOf(b)["failed"] \in Nat
         /\ "last" \in DOMAIN MetadataOf(b) => MetadataOf(b)["last"] \in Nat
  BY BodiesAssumption DEF MetadataOf

\* The count a body sets is the one the record gets.
LEMMA CountIsMerged ==
  ASSUME NEW b \in Bodies, NEW r \in Records
  PROVE  /\ Update(r, MetadataOf(b)) \in Records
         /\ Update(r, MetadataOf(b)).failed = CountOf(b, r.failed)
         /\ \A n \in Nat : CountOf(b, n) \in Nat
<1> DEFINE fields == MetadataOf(b)
<1>1. /\ "failed" \in DOMAIN fields <=> "failed" \in DOMAIN b
      /\ "failed" \in DOMAIN fields => fields["failed"] = b["failed"]
  BY DEF MetadataOf
<1>2. "failed" \in DOMAIN b => b["failed"] \in Nat
  BY BodiesAssumption
<1>3. /\ "pw" \notin DOMAIN fields
      /\ "enabled" \in DOMAIN fields => fields["enabled"] \in BOOLEAN
      /\ "failed" \in DOMAIN fields => fields["failed"] \in Nat
      /\ "last" \in DOMAIN fields => fields["last"] \in Nat
  BY KeptMetadata
<1>. HIDE DEF fields
<1>4. /\ Update(r, fields) \in Records
      /\ Update(r, fields)["failed"] = IF "failed" \in DOMAIN fields THEN fields["failed"] ELSE r["failed"]
  BY <1>3, UpdatesRecord
<1>. QED  BY <1>1, <1>2, <1>4 DEF CountOf, fields

LEMMA PasswordsMatch ==
  ASSUME NEW b \in Bodies, MatchedPassword(b) # None
  PROVE  MatchedPassword(b) \in Passwords
  BY BodiesAssumption DEF MatchedPassword

LEMMA VerifyFinds ==
  ASSUME NEW r \in MaybeRecords, NEW pw, Verify(r, pw) # None
  PROVE  Verify(r, pw) = r /\ r \in Records /\ r.enabled /\ r.pw = pw
  BY DEF Verify, MaybeRecords

-----------------------------------------------------------------------------
(* What begins and what ends a call.                                       *)

LEMMA CallTypes ==
  ASSUME AccountsTyped, NEW t \in Tasks, Busy(t)
  PROVE  /\ task[t] \in HandlerCalls
         /\ task[t].who \in Identities /\ task[t].seen \in MaybeRecords
         /\ store[task[t].who] \in MaybeRecords
         /\ task[t].op = "login" => task[t] \in LoginCalls
         /\ task[t].op \in {"create_user", "save", "set_password"} => task[t].body \in Bodies
  BY DEF AccountsTyped, Busy, HandlerCalls, LoginCalls, AdminCalls, DeleteCalls

LEMMA BeginningHolds ==
  ASSUME AccountsInv, NEW t \in Tasks, NEW i \in Identities, NEW doing \in HandlerCalls,
         Begins(t, i, doing), doing.who = i, doing.seen = store[i],
         doing.op = "login" => doing.found = None /\ ~Locked(store[i]),
         doing.op \in {"save", "set_password"} => store[i] # None,
         doing.op = "create_user" => store[i] = None,
         doing.op \in {"create_user", "set_password"} => MatchedPassword(doing.body) # None
  PROVE  AccountsInv'
<1> USE DEF AccountsInv, Begins
<1>1. doing # NoCall
  BY DEF HandlerCalls, LoginCalls, AdminCalls, DeleteCalls, NoCall
<1>2. task'[t] = doing /\ since'[t] = {store[i]}
  BY DEF AccountsTyped
<1>3. \A u \in Tasks : u # t => task'[u] = task[u] /\ since'[u] = since[u]
  BY DEF AccountsTyped
<1>4. store' = store /\ clock' = clock /\ failures' = failures /\ store[i] \in MaybeRecords
  BY DEF AccountsTyped
<1>5. overlapped \subseteq overlapped'
  OBVIOUS
<1>6. AccountsTyped'
  <2>1. calls' \in 0..MaxCalls
    BY BoundsAssumption DEF AccountsTyped
  <2>2. task' \in [Tasks -> {NoCall} \cup HandlerCalls]
    BY DEF AccountsTyped
  <2>3. since' \in [Tasks -> SUBSET MaybeRecords]
    BY <1>4 DEF AccountsTyped
  <2>4. overlapped' \subseteq Identities
    BY DEF AccountsTyped
  <2>. QED  BY <2>1, <2>2, <2>3, <2>4 DEF AccountsTyped
<1>7. \A u \in Tasks : CallHolds(u)'
  <2>. SUFFICES ASSUME NEW u \in Tasks PROVE CallHolds(u)'
    OBVIOUS
  <2>1. CASE u = t
    BY <2>1, <1>1, <1>2, <1>4
    DEF CallHolds, Remembers, Judged, Admitted, Undisturbed, Busy
  <2>2. CASE u # t
    <3>1. CallHolds(u)
      OBVIOUS
    <3>. QED  BY <3>1, <2>2, <1>3, <1>4, <1>5
      DEF CallHolds, Remembers, Judged, Admitted, Undisturbed, Busy
  <2>. QED  BY <2>1, <2>2
<1>8. \A u, v \in Tasks : Together(u, v)'
  <2>. SUFFICES ASSUME NEW u \in Tasks, NEW v \in Tasks, u # v,
                       Busy(u)', Busy(v)', task'[u].who = task'[v].who
                PROVE  task'[u].who \in overlapped'
    BY DEF Together
  <2>1. CASE u # t /\ v # t
    BY <2>1, <1>3, <1>5 DEF Together, Busy
  <2>2. CASE u = t
    <3>1. v \in Others(t, i)
      BY <2>2, <1>2, <1>3 DEF Others, Busy
    <3>. QED  BY <3>1, <2>2, <1>2
  <2>3. CASE v = t
    <3>1. u \in Others(t, i)
      BY <2>3, <1>2, <1>3 DEF Others, Busy
    <3>. QED  BY <3>1, <2>3, <1>2
  <2>. QED  BY <2>1, <2>2, <2>3
<1>9. LockoutHolds'
  <2>. SUFFICES ASSUME NEW j \in Identities \ overlapped'
                PROVE  /\ store'[j] # None => store'[j].failed = failures'[j]
                       /\ \A u \in Tasks : task'[u].op = "login" /\ task'[u].who = j
                            => ~Locked(store[j])'
    BY <1>4 DEF LockoutHolds
  <2>1. store'[j] # None => store'[j].failed = failures'[j]
    BY <1>4, <1>5 DEF LockoutHolds
  <2>2. ASSUME NEW u \in Tasks, task'[u].op = "login", task'[u].who = j
        PROVE  ~Locked(store[j])'
    BY <2>2, <1>2, <1>3, <1>4, <1>5 DEF LockoutHolds, Locked
  <2>. QED  BY <2>1, <2>2
<1>. QED  BY <1>6, <1>7, <1>8, <1>9

LEMMA EndingHolds ==
  ASSUME AccountsInv, NEW t \in Tasks, Busy(t), NEW record \in MaybeRecords, NEW n \in Nat,
         Ends(t, record, n),
         task[t].who \notin overlapped /\ record # None => record.failed = n
  PROVE  AccountsInv'
<1> USE DEF AccountsInv
<1> DEFINE i == task[t].who
<1>1. i \in Identities
  BY CallTypes
<1>2. store' = [store EXCEPT ![i] = record] /\ failures' = [failures EXCEPT ![i] = n]
  BY DEF Ends
<1>3. task' = [task EXCEPT ![t] = NoCall] /\ UNCHANGED <<clock, overlapped, calls, crashes>>
  BY DEF Ends
<1>4. since' = [u \in Tasks |-> IF u = t THEN {}
                               ELSE IF u \in Others(t, i) THEN since[u] \cup {record}
                               ELSE since[u]]
  BY DEF Ends
<1>. HIDE DEF i
<1>5. \A u \in Tasks : u # t => task'[u] = task[u] /\ since[u] \subseteq since'[u]
  BY <1>3, <1>4 DEF AccountsTyped
<1>6. task'[t] = NoCall /\ since'[t] = {}
  BY <1>3, <1>4 DEF AccountsTyped
<1>7. \A j \in Identities : j # i => store'[j] = store[j] /\ failures'[j] = failures[j]
  BY <1>2 DEF AccountsTyped
<1>8. store'[i] = record /\ failures'[i] = n
  BY <1>1, <1>2 DEF AccountsTyped
<1>9. ~Busy(t)' /\ task'[t].op \notin {"login", "create_user", "save", "set_password"}
  BY <1>6 DEF Busy, NoCall
<1>10. \A u \in Tasks : u # t /\ Busy(u) /\ task[u].who = i => i \in overlapped
  BY DEF Together, i
<1>11. AccountsTyped'
  <2>1. store' \in [Identities -> MaybeRecords] /\ failures' \in [Identities -> Nat]
    BY <1>1, <1>2 DEF AccountsTyped
  <2>2. task' \in [Tasks -> {NoCall} \cup HandlerCalls]
    BY <1>3 DEF AccountsTyped
  <2>3. since' \in [Tasks -> SUBSET MaybeRecords]
    BY <1>4 DEF AccountsTyped
  <2>. QED  BY <2>1, <2>2, <2>3, <1>3 DEF AccountsTyped
<1>12. \A u \in Tasks : CallHolds(u)'
  <2>. SUFFICES ASSUME NEW u \in Tasks PROVE CallHolds(u)'
    OBVIOUS
  <2>1. CASE u = t
    BY <2>1, <1>6, <1>9 DEF CallHolds, Remembers, Judged, Admitted, Undisturbed
  <2>2. CASE u # t
    <3>1. CallHolds(u) /\ task'[u] = task[u] /\ Busy(u)' = Busy(u)
      BY <2>2, <1>5 DEF Busy
    <3>2. Remembers(u)'
      <4>1. CASE u \in Others(t, i)
        <5>1. task[u].who = i /\ Busy(u) /\ since'[u] = since[u] \cup {record}
          BY <4>1, <2>2, <1>4 DEF Others
        <5>. QED  BY <5>1, <3>1, <1>8 DEF CallHolds, Remembers
      <4>2. CASE u \notin Others(t, i) /\ Busy(u)
        <5>1. task[u].who # i /\ since'[u] = since[u] /\ task[u].who \in Identities
          BY <4>2, <2>2, <1>4, CallTypes DEF Others
        <5>. QED  BY <5>1, <4>2, <3>1, <1>7 DEF CallHolds, Remembers
      <4>3. CASE ~Busy(u)
        <5>1. since'[u] = since[u]
          BY <4>3, <2>2, <1>4 DEF Others
        <5>. QED  BY <5>1, <4>3, <3>1 DEF CallHolds, Remembers
      <4>. QED  BY <4>1, <4>2, <4>3
    <3>3. Judged(u)' /\ Admitted(u)'
      BY <3>1, <2>2, <1>5 DEF CallHolds, Judged, Admitted
    <3>4. Undisturbed(u)'
      <4>. SUFFICES ASSUME Busy(u), task[u].who \notin overlapped
                    PROVE  store'[task[u].who] = store[task[u].who]
        BY <3>1, <1>3 DEF CallHolds, Undisturbed
      <4>1. task[u].who # i /\ task[u].who \in Identities
        BY <2>2, <1>10, CallTypes
      <4>. QED  BY <4>1, <1>7
    <3>. QED  BY <3>2, <3>3, <3>4 DEF CallHolds
  <2>. QED  BY <2>1, <2>2
<1>13. \A u, v \in Tasks : Together(u, v)'
  <2>. SUFFICES ASSUME NEW u \in Tasks, NEW v \in Tasks, u # v,
                       Busy(u)', Busy(v)', task'[u].who = task'[v].who
                PROVE  task'[u].who \in overlapped'
    BY DEF Together
  <2>1. u # t /\ v # t
    BY <1>9
  <2>. QED  BY <2>1, <1>3, <1>5 DEF Together, Busy
<1>14. LockoutHolds'
  <2>. SUFFICES ASSUME NEW j \in Identities \ overlapped
                PROVE  /\ store'[j] # None => store'[j].failed = failures'[j]
                       /\ \A u \in Tasks : task'[u].op = "login" /\ task'[u].who = j
                            => ~Locked(store[j])'
    BY <1>3 DEF LockoutHolds
  <2>1. store'[j] # None => store'[j].failed = failures'[j]
    <3>1. CASE j = i
      BY <3>1, <1>8 DEF i
    <3>2. CASE j # i
      BY <3>2, <1>7 DEF LockoutHolds
    <3>. QED  BY <3>1, <3>2
  <2>2. ASSUME NEW u \in Tasks, task'[u].op = "login", task'[u].who = j
        PROVE  ~Locked(store[j])'
    <3>1. u # t /\ task[u].op = "login" /\ task[u].who = j
      BY <2>2, <1>5, <1>9
    <3>2. Busy(u)
      BY <3>1 DEF Busy, NoCall
    <3>3. j # i
      BY <3>1, <3>2, <1>10
    <3>4. ~Locked(store[j])
      BY <3>1 DEF LockoutHolds
    <3>. QED  BY <3>3, <3>4, <1>3, <1>7 DEF Locked
  <2>. QED  BY <2>1, <2>2
<1>. QED  BY <1>11, <1>12, <1>13, <1>14

-----------------------------------------------------------------------------
(* One lemma for every step.                                               *)

LEMMA LoginReadsHolds ==
  ASSUME AccountsInv, NEW t \in Tasks, LoginReads(t)
  PROVE  AccountsInv'
<1>1. PICK i \in Identities, pw \in Passwords :
        /\ ~Locked(store[i])
        /\ Begins(t, i, [op |-> "login", who |-> i, seen |-> store[i], pw |-> pw,
                         found |-> None, step |-> "reads"])
  BY DEF LoginReads
<1> DEFINE doing == [op |-> "login", who |-> i, seen |-> store[i], pw |-> pw,
                     found |-> None, step |-> "reads"]
<1>2. doing \in HandlerCalls
  BY DEF AccountsInv, AccountsTyped, HandlerCalls, LoginCalls, MaybeRecords
<1>3. /\ doing.op = "login" /\ doing.who = i /\ doing.seen = store[i] /\ doing.found = None
  OBVIOUS
<1>. HIDE DEF doing
<1>. QED  BY <1>1, <1>2, <1>3, BeginningHolds DEF doing

LEMMA AdminReadsHolds ==
  ASSUME AccountsInv, NEW t \in Tasks, AdminReads(t)
  PROVE  AccountsInv'
<1>1. PICK i \in Identities, b \in Bodies, op \in {"create_user", "save", "set_password"} :
        /\ op = "create_user" <=> store[i] = None
        /\ op # "save" => MatchedPassword(b) # None
        /\ Begins(t, i, [op |-> op, who |-> i, seen |-> store[i], body |-> b])
  BY DEF AdminReads
<1> DEFINE doing == [op |-> op, who |-> i, seen |-> store[i], body |-> b]
<1>2. doing \in HandlerCalls
  BY DEF AccountsInv, AccountsTyped, HandlerCalls, AdminCalls, MaybeRecords
<1>3. doing.op = op /\ doing.who = i /\ doing.seen = store[i] /\ doing.body = b
  OBVIOUS
<1>4. Begins(t, i, doing)
  BY <1>1
<1>. HIDE DEF doing
<1>. QED  BY <1>1, <1>2, <1>3, <1>4, BeginningHolds

LEMMA DeleteReadsHolds ==
  ASSUME AccountsInv, NEW t \in Tasks, DeleteReads(t)
  PROVE  AccountsInv'
<1>1. PICK i \in Identities :
        store[i] # None /\ Begins(t, i, [op |-> "delete", who |-> i, seen |-> store[i]])
  BY DEF DeleteReads
<1> DEFINE doing == [op |-> "delete", who |-> i, seen |-> store[i]]
<1>2. doing \in HandlerCalls
  BY DEF AccountsInv, AccountsTyped, HandlerCalls, DeleteCalls, MaybeRecords
<1>3. doing.op = "delete" /\ doing.who = i /\ doing.seen = store[i]
  OBVIOUS
<1>4. Begins(t, i, doing)
  BY <1>1
<1>. HIDE DEF doing
<1>. QED  BY <1>1, <1>2, <1>3, <1>4, BeginningHolds

LEMMA LoginVerifiesHolds ==
  ASSUME AccountsInv, NEW t \in Tasks, LoginVerifies(t)
  PROVE  AccountsInv'
<1> USE DEF AccountsInv
<1> DEFINE i == task[t].who
           given == Verify(store[i], task[t].pw)
<1>1. Busy(t) /\ task[t] \in LoginCalls /\ i \in Identities /\ store[i] \in MaybeRecords
  BY CallTypes DEF LoginVerifies, Busy, NoCall
<1>2. /\ UNCHANGED <<store, clock, since, overlapped, failures, calls, crashes>>
      /\ task' = [task EXCEPT ![t].found = given, ![t].step = "verified"]
  BY DEF LoginVerifies
<1>3. given # None =>
        given = store[i] /\ given \in Records /\ given.enabled /\ given.pw = task[t].pw
  BY <1>1, VerifyFinds
<1>4. given \in MaybeRecords
  BY <1>3 DEF MaybeRecords
<1>. HIDE DEF given
<1>5. task'[t] = [task[t] EXCEPT !.found = given, !.step = "verified"]
  BY <1>2 DEF AccountsTyped
<1>6. /\ task'[t] \in LoginCalls /\ task'[t].op = "login" /\ task'[t].who = i
      /\ task'[t].seen = task[t].seen /\ task'[t].pw = task[t].pw
      /\ task'[t].found = given /\ task'[t].step = "verified"
  BY <1>1, <1>4, <1>5 DEF LoginCalls
<1>7. \A u \in Tasks : u # t => task'[u] = task[u]
  BY <1>2 DEF AccountsTyped
<1>8. \A u \in Tasks : /\ Busy(u)' <=> Busy(u)
                       /\ task'[u].who = task[u].who /\ task'[u].op = task[u].op
  BY <1>1, <1>6, <1>7 DEF Busy, NoCall, LoginCalls
<1>13. UNCHANGED <<store, clock, since, overlapped, failures>>
  BY <1>2
<1>9. AccountsTyped'
  <2>1. task' \in [Tasks -> {NoCall} \cup HandlerCalls]
    BY <1>2, <1>5, <1>6 DEF AccountsTyped, HandlerCalls
  <2>. QED  BY <2>1, <1>2 DEF AccountsTyped
<1>10. \A u \in Tasks : CallHolds(u)'
  <2>. SUFFICES ASSUME NEW u \in Tasks PROVE CallHolds(u)'
    OBVIOUS
  <2>1. CallHolds(u)
    OBVIOUS
  <2>2. CASE u # t
    <3>1. task'[u] = task[u]
      BY <2>2, <1>7
    <3>. QED  BY <2>1, <3>1, <1>13 DEF CallHolds, Remembers, Judged, Admitted, Undisturbed, Busy
  <2>3. CASE u = t
    BY <2>1, <2>3, <1>1, <1>2, <1>3, <1>6, <1>8
    DEF CallHolds, Remembers, Judged, Admitted, Undisturbed
  <2>. QED  BY <2>2, <2>3
<1>11. \A u, v \in Tasks : Together(u, v)'
  BY <1>8, <1>13 DEF Together
<1>12. LockoutHolds'
  BY <1>8, <1>13 DEF LockoutHolds, Locked
<1>. QED  BY <1>9, <1>10, <1>11, <1>12

LEMMA VerifiedLogin ==
  ASSUME AccountsInv, NEW t \in Tasks, Verified(t)
  PROVE  /\ Busy(t) /\ task[t] \in LoginCalls
         /\ task[t].who \in Identities
         /\ task[t].seen # None => task[t].seen \in Records
         /\ task[t].found # None => task[t].found \in Records
         /\ task[t].who \notin overlapped =>
              /\ task[t].seen = store[task[t].who]
              /\ task[t].found # None => task[t].found = store[task[t].who]
  <1>1. Busy(t) /\ task[t] \in LoginCalls
    BY CallTypes DEF Verified, Busy, NoCall, AccountsInv
  <1>. QED  BY <1>1 DEF AccountsInv, LoginCalls, MaybeRecords, CallHolds, Undisturbed, Verified

\* A call that leaves the store as it is.
LEMMA LeavesHolds ==
  ASSUME AccountsInv, NEW t \in Tasks, Busy(t), Leaves(t)
  PROVE  AccountsInv'
<1>1. task[t].who \in Identities /\ store[task[t].who] \in MaybeRecords
  BY CallTypes DEF AccountsInv
<1>2. failures[task[t].who] \in Nat
  BY <1>1 DEF AccountsInv, AccountsTyped
<1>3. task[t].who \notin overlapped /\ store[task[t].who] # None
        => store[task[t].who].failed = failures[task[t].who]
  BY <1>1 DEF AccountsInv, LockoutHolds
<1>. QED  BY <1>1, <1>2, <1>3, EndingHolds DEF Leaves

LEMMA LoginFailsHolds ==
  ASSUME AccountsInv, NEW t \in Tasks, LoginFails(t)
  PROVE  AccountsInv'
<1> DEFINE i == task[t].who
           counted == [failed |-> task[t].seen.failed + 1, last |-> clock]
<1>1. Verified(t) /\ Busy(t)
  BY VerifiedLogin DEF LoginFails
<1>2. CASE task[t].seen = None
  BY <1>1, <1>2, LeavesHolds DEF LoginFails
<1>3. CASE task[t].seen # None
  <2>1. Ends(t, Update(task[t].seen, counted), failures[i] + 1)
    BY <1>3 DEF LoginFails
  <2>2. task[t].seen \in Records /\ i \in Identities /\ failures[i] \in Nat /\ clock \in Nat
    BY <1>1, <1>3, VerifiedLogin, BoundsAssumption DEF AccountsInv, AccountsTyped
  <2>3. task[t].seen.failed \in Nat
    BY <2>2 DEF Records
  <2>4. /\ Update(task[t].seen, counted) \in Records
        /\ Update(task[t].seen, counted).failed = task[t].seen.failed + 1
    BY <2>2, <2>3, UpdatesRecord
  <2>5. i \notin overlapped => task[t].seen = store[i] /\ store[i].failed = failures[i]
    BY <1>1, <1>3, VerifiedLogin DEF AccountsInv, LockoutHolds
  <2>. HIDE DEF counted
  <2>6. Update(task[t].seen, counted) \in MaybeRecords /\ failures[i] + 1 \in Nat
    BY <2>2, <2>4 DEF MaybeRecords
  <2>. QED  BY <1>1, <2>1, <2>4, <2>5, <2>6, EndingHolds
<1>. QED  BY <1>2, <1>3

LEMMA LoginSucceedsHolds ==
  ASSUME AccountsInv, NEW t \in Tasks, LoginSucceeds(t)
  PROVE  AccountsInv'
<1> DEFINE i == task[t].who
           reset == [failed |-> 0, last |-> 0]
<1>1. Verified(t) /\ Busy(t) /\ task[t].found \in Records /\ i \in Identities
  BY VerifiedLogin DEF LoginSucceeds
<1>2. CASE task[t].found.failed = 0
  <2>1. Ends(t, store[i], 0)
    BY <1>2 DEF LoginSucceeds
  <2>2. i \notin overlapped /\ store[i] # None => store[i].failed = 0
    BY <1>1, <1>2, VerifiedLogin DEF LoginSucceeds
  <2>3. store[i] \in MaybeRecords
    BY <1>1 DEF AccountsInv, AccountsTyped
  <2>. QED  BY <1>1, <2>1, <2>2, <2>3, EndingHolds
<1>3. CASE task[t].found.failed # 0
  <2>1. Ends(t, Update(task[t].found, reset), 0)
    BY <1>3 DEF LoginSucceeds
  <2>2. Update(task[t].found, reset) \in Records /\ Update(task[t].found, reset).failed = 0
    BY <1>1, UpdatesRecord
  <2>. HIDE DEF reset
  <2>3. Update(task[t].found, reset) \in MaybeRecords
    BY <2>2 DEF MaybeRecords
  <2>. QED  BY <1>1, <2>1, <2>2, <2>3, EndingHolds
<1>. QED  BY <1>2, <1>3

\* What the section's calls know of their record.
LEMMA AdminCall ==
  ASSUME AccountsInv, NEW t \in Tasks,
         task[t].op \in {"create_user", "save", "set_password"}
  PROVE  /\ Busy(t) /\ task[t].who \in Identities /\ task[t].body \in Bodies
         /\ task[t].op # "save" => MatchedPassword(task[t].body) \in Passwords
         /\ task[t].op # "create_user" =>
              /\ task[t].seen \in Records
              /\ failures[task[t].who] \in Nat
              /\ task[t].who \notin overlapped =>
                   task[t].seen.failed = failures[task[t].who]
<1>1. Busy(t)
  BY DEF Busy, NoCall
<1>2. CallHolds(t) /\ AccountsTyped /\ LockoutHolds
  BY DEF AccountsInv
<1>3. /\ task[t].who \in Identities /\ task[t].body \in Bodies /\ task[t].seen \in MaybeRecords
      /\ failures[task[t].who] \in Nat
  BY <1>1, <1>2, CallTypes DEF AccountsTyped
<1>4. task[t].op # "save" => MatchedPassword(task[t].body) \in Passwords
  BY <1>2, <1>3, PasswordsMatch DEF CallHolds, Admitted
<1>5. task[t].op # "create_user" => task[t].seen \in Records /\ task[t].seen # None
  BY <1>2, <1>3 DEF CallHolds, Admitted, MaybeRecords
<1>6. task[t].op # "create_user" /\ task[t].who \notin overlapped =>
        task[t].seen.failed = failures[task[t].who]
  BY <1>1, <1>2, <1>3, <1>5 DEF CallHolds, Undisturbed, LockoutHolds
<1>. QED  BY <1>1, <1>3, <1>4, <1>5, <1>6

LEMMA CreateUserHolds ==
  ASSUME AccountsInv, NEW t \in Tasks, CreateUser(t)
  PROVE  AccountsInv'
<1> DEFINE fresh == [pw |-> MatchedPassword(task[t].body), enabled |-> TRUE,
                     failed |-> 0, last |-> 0]
           made == Update(fresh, MetadataOf(task[t].body))
           count == CountOf(task[t].body, 0)
<1>1. Busy(t) /\ task[t].body \in Bodies /\ fresh \in Records
  BY AdminCall DEF CreateUser, Records
<1>2. Ends(t, made, count)
  BY DEF CreateUser
<1>3. fresh.failed = 0
  OBVIOUS
<1>. HIDE DEF fresh
<1>4. made \in Records /\ made.failed = count /\ count \in Nat
  BY <1>1, <1>3, CountIsMerged
<1>. HIDE DEF made, count
<1>5. made \in MaybeRecords
  BY <1>4 DEF MaybeRecords
<1>. QED  BY <1>1, <1>2, <1>4, <1>5, EndingHolds

LEMMA SaveHolds ==
  ASSUME AccountsInv, NEW t \in Tasks, Save(t)
  PROVE  AccountsInv'
<1> DEFINE i == task[t].who
           made == Update(task[t].seen, MetadataOf(task[t].body))
           count == CountOf(task[t].body, failures[i])
<1>1. Ends(t, made, count)
  BY DEF Save
<1>2. /\ Busy(t) /\ i \in Identities /\ task[t].body \in Bodies /\ task[t].seen \in Records
      /\ failures[i] \in Nat /\ (i \notin overlapped => task[t].seen.failed = failures[i])
  BY AdminCall DEF Save
<1>3. made \in Records /\ made.failed = CountOf(task[t].body, task[t].seen.failed) /\ count \in Nat
  BY <1>2, CountIsMerged
<1>4. i \notin overlapped => made.failed = count
  BY <1>2, <1>3
<1>. HIDE DEF made, count
<1>5. made \in MaybeRecords
  BY <1>3 DEF MaybeRecords
<1>. QED  BY <1>1, <1>2, <1>3, <1>4, <1>5, EndingHolds

LEMMA SetPasswordHolds ==
  ASSUME AccountsInv, NEW t \in Tasks, SetPassword(t)
  PROVE  AccountsInv'
<1> DEFINE made == Update(task[t].seen, [pw |-> MatchedPassword(task[t].body)])
<1>1. Ends(t, made, failures[task[t].who])
  BY DEF SetPassword
<1>2. made \in Records /\ made.failed = task[t].seen.failed
  BY AdminCall, UpdatesRecord DEF SetPassword
<1>. HIDE DEF made
<1>. QED  BY <1>1, <1>2, AdminCall, EndingHolds DEF MaybeRecords, SetPassword

LEMMA DeleteHolds ==
  ASSUME AccountsInv, NEW t \in Tasks, Delete(t)
  PROVE  AccountsInv'
<1>1. Busy(t) /\ Ends(t, None, 0)
  BY DEF Delete, Busy, NoCall
<1>. QED  BY <1>1, EndingHolds DEF MaybeRecords

LEMMA TickHolds ==
  ASSUME AccountsInv, Tick
  PROVE  AccountsInv'
<1> USE DEF AccountsInv
<1>1. /\ clock < MaxNow /\ clock' = clock + 1
      /\ UNCHANGED <<store, task, since, overlapped, failures, calls, crashes>>
  BY DEF Tick
<1>2. AccountsTyped'
  BY <1>1, BoundsAssumption DEF AccountsTyped
<1>3. \A u \in Tasks : CallHolds(u)'
  BY <1>1 DEF CallHolds, Remembers, Judged, Admitted, Undisturbed, Busy
<1>4. \A u, v \in Tasks : Together(u, v)'
  BY <1>1 DEF Together, Busy
<1>5. LockoutHolds'
  <2>. SUFFICES ASSUME NEW j \in Identities, ~Locked(store[j]) PROVE ~Locked(store[j])'
    BY <1>1 DEF LockoutHolds
  <2>. SUFFICES ASSUME store[j] # None, store[j].failed >= MaxAttempts,
                       store[j].last + Window(store[j]) > clock + 1
                PROVE  FALSE
    BY <1>1 DEF Locked, Window
  <2>1. store[j].failed \in Nat /\ store[j].last \in Nat /\ clock \in Int
    BY DEF AccountsTyped, MaybeRecords, Records
  <2>2. store[j].failed - MaxAttempts \in Nat
    BY <2>1, PolicyAssumption
  <2>3. 2 ^ (store[j].failed - MaxAttempts) \in Int
    BY <2>2
  <2>4. Window(store[j]) \in Int
    BY <2>3, PolicyAssumption DEF Window
  <2>5. store[j].last + Window(store[j]) > clock
    BY <2>1, <2>4
  <2>. QED  BY <2>5 DEF Locked
<1>. QED  BY <1>2, <1>3, <1>4, <1>5

LEMMA CrashHolds ==
  ASSUME AccountsInv, Crash
  PROVE  AccountsInv'
<1> USE DEF AccountsInv
<1>1. /\ crashes < MaxCrashes /\ crashes' = crashes + 1
      /\ task' = [t \in Tasks |-> NoCall] /\ since' = [t \in Tasks |-> {}]
      /\ UNCHANGED <<store, clock, overlapped, failures, calls>>
  BY DEF Crash
<1>2. AccountsTyped'
  BY <1>1, BoundsAssumption DEF AccountsTyped
<1>3. \A u \in Tasks : task'[u] = NoCall /\ since'[u] = {}
  BY <1>1
<1>4. \A u \in Tasks : CallHolds(u)'
  BY <1>3 DEF CallHolds, Remembers, Judged, Admitted, Undisturbed, Busy, NoCall
<1>5. \A u, v \in Tasks : Together(u, v)'
  BY <1>3 DEF Together, Busy
<1>6. LockoutHolds'
  BY <1>1, <1>3 DEF LockoutHolds, NoCall
<1>. QED  BY <1>2, <1>4, <1>5, <1>6

LEMMA AccountsInitHolds == AccountsInit => AccountsInv
<1>. SUFFICES ASSUME AccountsInit PROVE AccountsInv
  OBVIOUS
<1>1. \A i \in Identities : store[i] \in MaybeRecords /\ (store[i] # None => store[i].failed = 0)
  <2> DEFINE Fresh == [pw: Passwords, enabled: BOOLEAN, failed: {0}, last: {0}]
  <2>1. \A r \in Fresh : r \in Records /\ r.failed = 0
    BY DEF Records
  <2>. HIDE DEF Fresh
  <2>2. store \in [Identities -> {None} \cup Fresh]
    BY DEF AccountsInit, Fresh
  <2>. QED  BY <2>1, <2>2 DEF MaybeRecords
<1>2. \A t \in Tasks : task[t] = NoCall /\ since[t] = {}
  BY DEF AccountsInit
<1>3. AccountsTyped
  <2>1. store \in [Identities -> MaybeRecords]
    BY <1>1 DEF AccountsInit
  <2>. QED  BY <2>1, BoundsAssumption DEF AccountsInit, AccountsTyped
<1>4. \A t \in Tasks : CallHolds(t)
  BY <1>2 DEF CallHolds, Remembers, Judged, Admitted, Undisturbed, Busy, NoCall
<1>5. \A t, u \in Tasks : Together(t, u)
  BY <1>2 DEF Together, Busy
<1>6. LockoutHolds
  BY <1>1, <1>2 DEF LockoutHolds, AccountsInit, NoCall
<1>. QED  BY <1>3, <1>4, <1>5, <1>6 DEF AccountsInv

LEMMA AccountsStepHolds == AccountsInv /\ [AccountsNext]_accountVars => AccountsInv'
<1>. SUFFICES ASSUME AccountsInv, [AccountsNext]_accountVars PROVE AccountsInv'
  OBVIOUS
<1>1. ASSUME NEW t \in Tasks,
             \/ LoginReads(t) \/ LoginVerifies(t) \/ LoginFails(t) \/ LoginSucceeds(t)
             \/ AdminReads(t) \/ CreateUser(t) \/ Save(t) \/ SetPassword(t)
             \/ DeleteReads(t) \/ Delete(t)
      PROVE  AccountsInv'
  BY <1>1, LoginReadsHolds, LoginVerifiesHolds, LoginFailsHolds, LoginSucceedsHolds,
     AdminReadsHolds, CreateUserHolds, SaveHolds, SetPasswordHolds, DeleteReadsHolds, DeleteHolds
<1>2. CASE UNCHANGED accountVars
  BY <1>2 DEF AccountsInv, accountVars, AccountsTyped, CallHolds, Remembers, Judged, Admitted,
     Undisturbed, Together, LockoutHolds, Locked, Busy
<1>. QED  BY <1>1, <1>2, TickHolds, CrashHolds DEF AccountsNext

LEMMA AccountsInvariant == AccountsSpec => []AccountsInv
  BY AccountsInitHolds, AccountsStepHolds, PTL DEF AccountsSpec

\* For any identities, threads, bodies and policy: while no two calls were at an
\* identity together its counter is the refusals told since the last success, on
\* top of what an operator has set since, and no password is checked while it is
\* locked (login, _lock_seconds_remaining, metadata_of).
THEOREM LockoutIsExact == AccountsSpec => []AccountsHold
<1>1. AccountsInv => AccountsHold
  BY CallTypes DEF AccountsInv, AccountsTyped, AccountsHold, AccountsTypeOK, CallHolds, Remembers,
     MaybeRecords
<1>. QED  BY <1>1, AccountsInvariant, PTL

\* In every step: a login is answered only for a record that was enabled and had
\* that password at some moment of the call (login, UserStore.verify).
THEOREM LoginsWereValid == AccountsSpec => AuthenticatedWasValid
<1> DEFINE Valid(t) ==
      Verified(t) /\ task[t].found # None /\ task'[t] = NoCall /\ crashes' = crashes
        => \E r \in since[t] : r # None /\ r.enabled /\ r.pw = task[t].pw
<1>1. AccountsInv => \A t \in Tasks : Valid(t)
  BY DEF AccountsInv, CallHolds, Judged, Verified
<1>2. AccountsInv /\ [AccountsNext]_accountVars => [\A t \in Tasks : Valid(t)]_accountVars
  BY <1>1
<1>. QED  BY <1>2, AccountsInvariant, PTL DEF AccountsSpec, AuthenticatedWasValid

-----------------------------------------------------------------------------
(* What a write changes.                                                   *)

\* The fields a handler does not own are as they were.
KeepsTheRest(t, i) ==
  /\ None \notin {store[i], store'[i]}
  /\ \A f \in DOMAIN store[i] \ OwnFields(t) : store'[i][f] = store[i][f]

\* The write of t to the record of i is one that its operation makes.
OwnWrite(t, i) ==
  /\ Busy(t) /\ task'[t] = NoCall /\ task[t].who = i
  /\ \/ since[t] # {store[i]}
     \/ task[t].op = "create_user" /\ store[i] = None
     \/ task[t].op = "delete" /\ store'[i] = None
     \/ KeepsTheRest(t, i)

LEMMA WritesItsRecord ==
  ASSUME AccountsInv, NEW t \in Tasks, Busy(t), NEW record, NEW n, Ends(t, record, n),
         NEW i \in Identities, store'[i] # store[i]
  PROVE  task[t].who = i /\ store'[i] = record /\ task'[t] = NoCall
  BY DEF Ends, AccountsInv, AccountsTyped

\* What an update of a record that nobody else wrote leaves alone.
LEMMA UpdateKeepsTheRest ==
  ASSUME NEW t \in Tasks, NEW i \in Identities, NEW r \in Records, NEW fields,
         DOMAIN fields \subseteq OwnFields(t),
         store[i] = r, store'[i] = Update(r, fields), Update(r, fields) \in Records
  PROVE  KeepsTheRest(t, i)
<1>1. \A f \in DOMAIN r \ OwnFields(t) : Update(r, fields)[f] = r[f]
  BY DEF Update
<1>. QED  BY <1>1, NoneAssumption DEF KeepsTheRest

LEMMA LoginOwnsItsWrite ==
  ASSUME AccountsInv, NEW t \in Tasks, LoginFails(t) \/ LoginSucceeds(t),
         NEW i \in Identities, store'[i] # store[i]
  PROVE  OwnWrite(t, i)
<1>1. Verified(t) /\ Busy(t)
  BY VerifiedLogin DEF LoginFails, LoginSucceeds
<1>2. OwnFields(t) = {"failed", "last"}
  BY <1>1 DEF OwnFields, Verified
<1>3. CallHolds(t) /\ AccountsTyped
  BY DEF AccountsInv
<1>4. CASE LoginFails(t)
  <2> DEFINE counted == [failed |-> task[t].seen.failed + 1, last |-> clock]
  <2>1. task[t].seen # None
    BY <1>1, <1>4, WritesItsRecord DEF LoginFails, Leaves
  <2>2. Ends(t, Update(task[t].seen, counted), failures[task[t].who] + 1)
    BY <1>4, <2>1 DEF LoginFails
  <2>3. task[t].who = i /\ store'[i] = Update(task[t].seen, counted) /\ task'[t] = NoCall
    BY <1>1, <2>2, WritesItsRecord
  <2>4. task[t].seen \in Records /\ task[t].seen.failed \in Nat /\ clock \in Nat
    BY <1>1, <1>3, <2>1, VerifiedLogin, BoundsAssumption DEF Records, AccountsTyped
  <2>5. Update(task[t].seen, counted) \in Records
    BY <2>4, UpdatesRecord
  <2>6. DOMAIN counted \subseteq OwnFields(t)
    BY <1>2
  <2>. HIDE DEF counted
  <2>7. since[t] = {store[i]} => task[t].seen = store[i]
    BY <1>1, <1>3, <2>3 DEF CallHolds, Remembers
  <2>. QED  BY <1>1, <2>3, <2>4, <2>5, <2>6, <2>7, UpdateKeepsTheRest DEF OwnWrite
<1>5. CASE LoginSucceeds(t)
  <2> DEFINE reset == [failed |-> 0, last |-> 0]
  <2>1. task[t].found # None /\ task[t].found \in Records
    BY <1>1, <1>5, VerifiedLogin DEF LoginSucceeds
  <2>2. task[t].found.failed # 0
    BY <1>1, <1>5, WritesItsRecord DEF LoginSucceeds
  <2>3. Ends(t, Update(task[t].found, reset), 0)
    BY <1>5, <2>2 DEF LoginSucceeds
  <2>4. task[t].who = i /\ store'[i] = Update(task[t].found, reset) /\ task'[t] = NoCall
    BY <1>1, <2>3, WritesItsRecord
  <2>5. Update(task[t].found, reset) \in Records
    BY <2>1, UpdatesRecord
  <2>6. DOMAIN reset \subseteq OwnFields(t)
    BY <1>2
  <2>. HIDE DEF reset
  <2>7. since[t] = {store[i]} => task[t].found = store[i]
    BY <1>1, <1>3, <2>1, <2>4 DEF CallHolds, Judged, Verified
  <2>. QED  BY <1>1, <2>1, <2>4, <2>5, <2>6, <2>7, UpdateKeepsTheRest DEF OwnWrite
<1>. QED  BY <1>4, <1>5

LEMMA AdminOwnsItsWrite ==
  ASSUME AccountsInv, NEW t \in Tasks, CreateUser(t) \/ Save(t) \/ SetPassword(t),
         NEW i \in Identities, store'[i] # store[i]
  PROVE  OwnWrite(t, i)
<1>1. Busy(t) /\ CallHolds(t) /\ task[t].body \in Bodies
  BY AdminCall DEF AccountsInv, CreateUser, Save, SetPassword
<1>2. CASE CreateUser(t)
  <2>1. task[t].who = i /\ task'[t] = NoCall
    BY <1>1, <1>2, WritesItsRecord DEF CreateUser
  <2>2. since[t] = {store[i]} => store[i] = None
    BY <1>1, <1>2, <2>1 DEF CallHolds, Remembers, Admitted, CreateUser
  <2>. QED  BY <1>1, <1>2, <2>1, <2>2 DEF OwnWrite, CreateUser
<1>3. ASSUME task[t].op \in {"save", "set_password"}, NEW fields, NEW n,
             DOMAIN fields \subseteq OwnFields(t),
             Ends(t, Update(task[t].seen, fields), n),
             Update(task[t].seen, fields) \in Records
      PROVE  OwnWrite(t, i)
  <2>1. task[t].who = i /\ store'[i] = Update(task[t].seen, fields) /\ task'[t] = NoCall
    BY <1>1, <1>3, WritesItsRecord
  <2>2. task[t].seen \in Records
    BY <1>3, AdminCall
  <2>3. since[t] = {store[i]} => task[t].seen = store[i]
    BY <1>1, <2>1 DEF CallHolds, Remembers
  <2>. QED  BY <1>1, <1>3, <2>1, <2>2, <2>3, UpdateKeepsTheRest DEF OwnWrite
<1>4. CASE Save(t)
  <2> DEFINE fields == MetadataOf(task[t].body)
         count == CountOf(task[t].body, failures[task[t].who])
  <2>1. task[t].op = "save" /\ Ends(t, Update(task[t].seen, fields), count)
    BY <1>4 DEF Save
  <2>2. DOMAIN fields \subseteq OwnFields(t)
    BY <2>1 DEF OwnFields
  <2>3. Update(task[t].seen, fields) \in Records
    BY <1>1, <2>1, AdminCall, CountIsMerged
  <2>. HIDE DEF fields, count
  <2>. QED  BY <2>1, <2>2, <2>3, <1>3
<1>5. CASE SetPassword(t)
  <2> DEFINE fields == [pw |-> MatchedPassword(task[t].body)]
  <2>1. /\ task[t].op = "set_password"
        /\ Ends(t, Update(task[t].seen, fields), failures[task[t].who])
    BY <1>5 DEF SetPassword
  <2>2. DOMAIN fields \subseteq OwnFields(t)
    BY <2>1 DEF OwnFields
  <2>3. Update(task[t].seen, fields) \in Records
    BY <2>1, AdminCall, UpdatesRecord
  <2>. HIDE DEF fields
  <2>. QED  BY <2>1, <2>2, <2>3, <1>3
<1>. QED  BY <1>2, <1>4, <1>5

LEMMA EveryWriteIsOwned ==
  ASSUME AccountsInv, AccountsNext, NEW i \in Identities, store'[i] # store[i]
  PROVE  \E t \in Tasks : OwnWrite(t, i)
<1>1. CASE Tick \/ Crash
  BY <1>1 DEF Tick, Crash
<1>2. ASSUME NEW t \in Tasks,
             LoginReads(t) \/ LoginVerifies(t) \/ AdminReads(t) \/ DeleteReads(t)
      PROVE  FALSE
  BY <1>2 DEF LoginReads, LoginVerifies, AdminReads, DeleteReads, Begins
<1>3. ASSUME NEW t \in Tasks, Delete(t)
      PROVE  OwnWrite(t, i)
  <2>1. Busy(t) /\ Ends(t, None, 0) /\ task[t].op = "delete"
    BY <1>3 DEF Delete, Busy, NoCall
  <2>. QED  BY <2>1, WritesItsRecord DEF OwnWrite
<1>. QED  BY <1>1, <1>2, <1>3, LoginOwnsItsWrite, AdminOwnsItsWrite DEF AccountsNext

\* In every step, for any threads and bodies: a handler whose record nobody else
\* wrote meanwhile changes only the fields it owns, and neither removes nor
\* revives a record unless that is its operation (login, UsersSection).
THEOREM UpdatesAreLostByOverlap == AccountsSpec => LostUpdateNeedsOverlap
<1> DEFINE Owned ==
      \A i \in Identities : store'[i] # store[i] =>
        \E t \in Tasks :
          /\ Busy(t) /\ task'[t] = NoCall /\ task[t].who = i
          /\ \/ since[t] # {store[i]}
             \/ task[t].op = "create_user" /\ store[i] = None
             \/ task[t].op = "delete" /\ store'[i] = None
             \/ /\ None \notin {store[i], store'[i]}
                /\ \A f \in DOMAIN store[i] \ OwnFields(t) : store'[i][f] = store[i][f]
<1>1. AccountsInv /\ [AccountsNext]_accountVars => [Owned]_accountVars
  <2>1. ASSUME AccountsInv, AccountsNext, NEW i \in Identities, store'[i] # store[i]
        PROVE  \E t \in Tasks :
                 /\ Busy(t) /\ task'[t] = NoCall /\ task[t].who = i
                 /\ \/ since[t] # {store[i]}
                    \/ task[t].op = "create_user" /\ store[i] = None
                    \/ task[t].op = "delete" /\ store'[i] = None
                    \/ /\ None \notin {store[i], store'[i]}
                       /\ \A f \in DOMAIN store[i] \ OwnFields(t) : store'[i][f] = store[i][f]
    <3>1. PICK t \in Tasks : OwnWrite(t, i)
      BY <2>1, EveryWriteIsOwned
    <3>. QED  BY <3>1, Zenon DEF OwnWrite, KeepsTheRest
  <2>. QED  BY <2>1, Zenon
<1>. QED  BY <1>1, AccountsInvariant, PTL DEF AccountsSpec, LostUpdateNeedsOverlap
=============================================================================
