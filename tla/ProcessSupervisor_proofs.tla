---------------------- MODULE ProcessSupervisor_proofs ----------------------
(***************************************************************************)
(* For any number of processes and events and any backoff: the role is     *)
(* played by one process at a time, which is reached and supervised or     *)
(* being replaced; a relaunch ends only what was reported and starts no    *)
(* process too early; and nothing is left of the role when the stops are   *)
(* over, unless a relaunch slipped out of the record of them.              *)
(***************************************************************************)
EXTENDS ProcessSupervisor, TLAPS

(* The invariant. A relaunch that is not cancelled is free; one whose entry *)
(* was dropped by another's finally is no longer listed.                    *)

Free(r) == ~r.cancelled
Listed(r) == r.id = entry

\* What may still ask for a relaunch of the process: its watcher, once, and
\* its membership, once: it is known by its pid, or joins, or may connect.
Watched == watch[process] = "waiting"
CanAsk ==
  pid = process \/ (calling /\ connected = process) \/ (joined = Never /\ os[process] = "up")

\* Every relaunch that is not over has used up one of the two.
AskedOnce == tasks # {} /\ process # None => ~(Watched /\ CanAsk)
AskedTwice == \A r, s \in tasks : r # s /\ process # None => ~Watched /\ ~CanAsk
OrphansAreLast ==
  \A r \in tasks : Free(r) /\ ~Listed(r) /\ process # None => ~Watched /\ ~CanAsk

Ids ==
  /\ \A r, s \in tasks : r.id = s.id => r = s
  /\ \A r \in tasks : r.id \in 1 .. launched
EntryIsFree == entry # None => \E r \in tasks : Listed(r) /\ Free(r)
CancelledIsAwaited ==
  \A r \in tasks : r.cancelled => server.at = "cancelling" /\ r.id = server.awaits

Members ==
  /\ pid \in {None, connected} /\ (calling => pid = None /\ connected # None)
  /\ pid # None /\ pid = process => joined # Never
  /\ connected # None => os[connected] # "unborn"
Minted ==
  /\ \A p \in Pids : os[p] # "unborn" => p <= minted
  /\ process # None => os[process] # "unborn"
  /\ \A r \in tasks : Free(r) /\ r.at = "spawning" => r.target <= minted

\* The process before has ended when a relaunch sleeps or spawns.
Sequential ==
  /\ \A r \in tasks : Free(r) /\ r.at \in {"sleeping", "spawning"} => \A p \in Pids : ~Alive(p)
  /\ \A r \in tasks : Free(r) /\ r.at = "ending" =>
       r.target \in Pids /\ \A p \in Pids : Alive(p) => p = r.target
  /\ \A r \in tasks : Free(r) /\ r.at = "spawning" => r.target \in Pids /\ os[r.target] = "unborn"
  /\ \A p \in Pids : Alive(p) =>
       p = process \/ (process = None /\ server.awaits = p /\ server.at = "ending")

Phases ==
  /\ server.at = "ensuring" =>
       /\ \A p \in Pids : os[p] = "unborn"
       /\ tasks = {} /\ process = None /\ entry = None /\ connected = None /\ minted \in Pids
  /\ server.at = "up" => process # None
  /\ server.call = 0 <=> server.at \in {"ensuring", "up"}
  /\ server.at = "closed" => server.call = 1
  /\ server.at = "done" => server.call = 2
  /\ server.at = "ending" => server.awaits \in Pids \cup {None}

\* The second stop finds a dispatcher gone: no relaunch gets to spawn.
EndsForGood ==
  ~slipped =>
    /\ \A r \in tasks : Free(r) => Listed(r)
    /\ server.call = 2 /\ server.at # "stopping" =>
         /\ \A r \in tasks : Free(r) => r.at # "spawning"
         /\ server.at # "cancelling" => process = None

\* What is relaunched while it runs was reported.
ReportedFirst ==
  \A r \in tasks : Free(r) /\ r.at = "created" /\ process # None /\ os[process] = "up"
    => process \in blamed

\* A backoff is none or at least the interval, and a relaunch sleeps until that
\* long after the last start.
Spacing ==
  /\ backoff = 0 \/ backoff >= Interval
  /\ \A r \in tasks : ~r.cancelled /\ r.at = "sleeping" => started + r.delay >= Interval

Asks == AskedOnce /\ AskedTwice /\ OrphansAreLast
Records == Ids /\ OneRelaunch /\ EntryIsFree /\ CancelledIsAwaited
IInv ==
  /\ TypeOK /\ Spacing /\ Asks /\ Records /\ Members /\ Minted /\ Sequential /\ Phases
  /\ EndsForGood /\ ReportedFirst /\ ReachedOrReplaced /\ Supervised

-----------------------------------------------------------------------------
(* Types. *)

Relaunches == [id : Nat, at : TaskSteps, target : Pids \cup {None}, delay : 0 .. Ceiling,
               cancelled : BOOLEAN]
Servers == [at : ServerSteps, call : 0 .. 2, awaits : Nat]

\* The type invariant with its sets of records named.
TypeParts ==
  /\ os \in [Pids -> {"unborn", "up", "ending", "dead"}]
  /\ watch \in [Pids -> {"none", "waiting", "over"}]
  /\ process \in Pids \cup {None} /\ watcher \in Pids \cup {None}
  /\ started \in 0 .. Ceiling /\ joined \in {Never} \cup 0 .. Reset
  /\ backoff \in 0 .. Ceiling
  /\ entry \in Nat /\ launched \in Nat /\ tasks \in SUBSET Relaunches
  /\ minted \in 0 .. MaxPids
  /\ connected \in Pids \cup {None} /\ calling \in BOOLEAN /\ pid \in Pids \cup {None}
  /\ server \in Servers
  /\ failed \in BOOLEAN /\ slipped \in BOOLEAN /\ blamed \in SUBSET Pids
  /\ events \in 0 .. MaxEvents

\* They are the same, before and after a step.
LEMMA SameTypes == (TypeOK <=> TypeParts) /\ (TypeOK' <=> TypeParts')
BY DEF TypeOK, TypeParts, Relaunches, Servers

\* Processes are numbers from 1.
LEMMA PidsAreNat ==
  /\ None \notin Pids /\ Never \notin Nat /\ \A p \in Pids : p \in Nat /\ p >= 1 /\ p <= MaxPids
  /\ \A n \in Nat : n >= 1 /\ n <= MaxPids => n \in Pids
BY BoundsAssumption DEF Pids, None, Never

\* A relaunch that is asked for.
Asked == [id |-> launched + 1, at |-> "created", target |-> None, delay |-> 0, cancelled |-> FALSE]

\* A step that asks queues one relaunch or none.
LEMMA AskTyped ==
  ASSUME TypeOK, NEW p, AskRelaunch(p) \/ UNCHANGED taskVars
  PROVE  entry' \in Nat /\ launched' \in Nat /\ tasks' \in SUBSET Relaunches
<1>1. Asked \in Relaunches
  BY BackoffAssumption DEF TypeOK, Asked, Relaunches, TaskSteps
<1>2. CASE UNCHANGED taskVars BY <1>2 DEF TypeOK, taskVars, Relaunches
<1>3. CASE AskRelaunch(p)
  <2>1. UNCHANGED taskVars \/ (launched' = launched + 1 /\ entry' = launched + 1 /\ tasks' = tasks \cup {Asked})
    BY <1>3 DEF AskRelaunch, Asked
  <2> QED BY <1>1, <1>2, <2>1 DEF TypeOK, Relaunches
<1> QED BY <1>2, <1>3

\* The bound on events.
LEMMA EventsType ==
  ASSUME TypeOK, Happens \/ UNCHANGED events
  PROVE  events' \in 0 .. MaxEvents
BY BoundsAssumption DEF TypeOK, Happens

\* A relaunch backs off.
LEMMA BackoffTyped ==
  ASSUME TypeOK, Spacing, NEW r \in tasks, BacksOff(r)
  PROVE  /\ tasks' \in SUBSET Relaunches /\ backoff' \in 0 .. Ceiling /\ backoff' >= Interval
         /\ \E d \in 0 .. Ceiling : /\ tasks' = (tasks \ {r}) \cup {[r EXCEPT !.at = "sleeping", !.delay = d]}
                                    /\ started + d >= Interval
<1> DEFINE current == IF joined = Reset \/ backoff = 0 THEN Interval ELSE backoff
           d == Greatest(current - started, 0)
<1>1. current \in Interval .. Ceiling /\ started \in 0 .. Ceiling
  BY BackoffAssumption DEF TypeOK, Spacing
<1>2. backoff' = Least(2 * current, Ceiling) /\ tasks' = (tasks \ {r}) \cup {[r EXCEPT !.at = "sleeping", !.delay = d]}
  BY DEF BacksOff, Becomes
<1> HIDE DEF current
<1>3. backoff' \in 0 .. Ceiling /\ backoff' >= Interval BY <1>1, <1>2, BackoffAssumption DEF Least
<1>4. d \in 0 .. Ceiling /\ started + d >= Interval BY <1>1, BackoffAssumption DEF Greatest
<1> HIDE DEF d
<1>5. [r EXCEPT !.at = "sleeping", !.delay = d] \in Relaunches
  <2>1. r \in Relaunches /\ "sleeping" \in TaskSteps BY DEF TypeOK, Relaunches, TaskSteps
  <2> QED BY <1>4, <2>1 DEF Relaunches
<1>6. tasks' \in SUBSET Relaunches BY <1>2, <1>5 DEF TypeOK, Relaunches
<1> QED BY <1>2, <1>3, <1>4, <1>6

\* The server in its next step.
LEMMA ServerTyped ==
  ASSUME server \in Servers, NEW there \in ServerSteps, NEW call \in 0 .. 2, NEW n \in Nat
  PROVE  /\ [server EXCEPT !.at = there] \in Servers
         /\ [server EXCEPT !.at = there, !.call = call] \in Servers
         /\ [server EXCEPT !.at = there, !.awaits = n] \in Servers
BY DEF Servers

-----------------------------------------------------------------------------
(* The steps that ask for nothing. *)

\* A process ends by itself, or because it was told to.
LEMMA ExitsHolds ==
  ASSUME IInv, NEW p \in Pids, Exits(p)
  PROVE  IInv'
<1> USE PidsAreNat DEF IInv, Exits, osVars, roleVars, taskVars, busVars, history
<1>1. TypeParts BY SameTypes
<1> USE <1>1 DEF TypeParts
<1>3. TypeParts'
  <2>1. events' \in 0 .. MaxEvents BY EventsType
  <2>2. server' = server OBVIOUS
  <2> QED BY <2>1, <2>2, BackoffAssumption
<1>4. Spacing' /\ Records' /\ Members' /\ Minted'
  BY DEF Spacing, Records, Ids, OneRelaunch, EntryIsFree, CancelledIsAwaited, Members, Minted,
         Free, Listed, Servers
<1>5. Asks'
  BY DEF Asks, AskedOnce, AskedTwice, OrphansAreLast, Free, Listed, Watched, CanAsk, Servers
<1>6. Sequential' /\ Phases' /\ EndsForGood'
  BY DEF Sequential, Phases, EndsForGood, Alive, Free, Listed, Servers
<1>7. ReportedFirst' /\ ReachedOrReplaced' /\ Supervised'
  BY DEF ReportedFirst, ReachedOrReplaced, Supervised, Stopping, Free, Servers
<1> QED BY SameTypes, <1>3, <1>4, <1>5, <1>6, <1>7

\* A process connects.
LEMMA ConnectsHolds ==
  ASSUME IInv, NEW p \in Pids, Connects(p)
  PROVE  IInv'
<1> USE PidsAreNat DEF IInv, Connects, HasDispatcher, osVars, roleVars, taskVars, busVars, history
<1>1. TypeParts BY SameTypes
<1> USE <1>1 DEF TypeParts
<1>3. TypeParts'
  <2>1. events' \in 0 .. MaxEvents BY EventsType
  <2>2. server' = server OBVIOUS
  <2> QED BY <2>1, <2>2, BackoffAssumption
<1>4. Spacing' /\ Records' /\ Members' /\ Minted'
  BY DEF Spacing, Records, Ids, OneRelaunch, EntryIsFree, CancelledIsAwaited, Members, Minted,
         Free, Listed, Servers
<1>5. Asks'
  BY DEF Asks, AskedOnce, AskedTwice, OrphansAreLast, Free, Listed, Watched, CanAsk, Servers
<1>6. Sequential' /\ Phases' /\ EndsForGood'
  BY DEF Sequential, Phases, EndsForGood, Alive, Free, Listed, Servers
<1>7. ReportedFirst' /\ ReachedOrReplaced' /\ Supervised'
  BY DEF ReportedFirst, ReachedOrReplaced, Supervised, Stopping, Free, Servers
<1> QED BY SameTypes, <1>3, <1>4, <1>5, <1>6, <1>7

\* It joins.
LEMMA JoinsHolds ==
  ASSUME IInv, Joins
  PROVE  IInv'
<1> USE PidsAreNat DEF IInv, Joins, osVars, roleVars, taskVars, busVars, history
<1>1. TypeParts BY SameTypes
<1> USE <1>1 DEF TypeParts
<1>3. TypeParts'
  <2>1. events' \in 0 .. MaxEvents BY EventsType
  <2>2. server' = server OBVIOUS
  <2>3. joined' \in 0 .. Reset BY BackoffAssumption
  <2> QED BY <2>1, <2>2, <2>3, BackoffAssumption
<1>4. Spacing' /\ Records' /\ Members' /\ Minted'
  BY DEF Spacing, Records, Ids, OneRelaunch, EntryIsFree, CancelledIsAwaited, Members, Minted,
         Free, Listed, Servers
<1>5. Asks'
  BY DEF Asks, AskedOnce, AskedTwice, OrphansAreLast, Free, Listed, Watched, CanAsk, Servers
<1>6. Sequential' /\ Phases' /\ EndsForGood'
  BY DEF Sequential, Phases, EndsForGood, Alive, Free, Listed, Servers
<1>7. ReportedFirst' /\ ReachedOrReplaced' /\ Supervised'
  BY DEF ReportedFirst, ReachedOrReplaced, Supervised, Stopping, Free, Servers
<1> QED BY SameTypes, <1>3, <1>4, <1>5, <1>6, <1>7

\* Or is refused.
LEMMA JoinRefusedHolds ==
  ASSUME IInv, JoinRefused
  PROVE  IInv'
<1> USE PidsAreNat DEF IInv, JoinRefused, osVars, roleVars, taskVars, busVars, history
<1>1. TypeParts BY SameTypes
<1> USE <1>1 DEF TypeParts
<1>3. TypeParts'
  <2>1. events' \in 0 .. MaxEvents BY EventsType
  <2>2. server' = server OBVIOUS
  <2> QED BY <2>1, <2>2, BackoffAssumption
<1>4. Spacing' /\ Records' /\ Members' /\ Minted'
  BY DEF Spacing, Records, Ids, OneRelaunch, EntryIsFree, CancelledIsAwaited, Members, Minted,
         Free, Listed, Servers
<1>5. Asks'
  BY DEF Asks, AskedOnce, AskedTwice, OrphansAreLast, Free, Listed, Watched, CanAsk, Servers
<1>6. Sequential' /\ Phases' /\ EndsForGood'
  BY DEF Sequential, Phases, EndsForGood, Alive, Free, Listed, Servers
<1>7. ReportedFirst' /\ ReachedOrReplaced' /\ Supervised'
  BY DEF ReportedFirst, ReachedOrReplaced, Supervised, Stopping, Free, Servers
<1> QED BY SameTypes, <1>3, <1>4, <1>5, <1>6, <1>7

\* The first process of the role.
LEMMA StartEnsuredHolds ==
  ASSUME IInv, StartEnsured
  PROVE  IInv'
<1> USE PidsAreNat DEF IInv, StartEnsured, Born, osVars, roleVars, taskVars, busVars, history
<1>1. TypeParts BY SameTypes
<1> USE <1>1 DEF TypeParts
<1>2. /\ minted \in Pids /\ tasks = {} /\ entry = None /\ process = None /\ connected = None
      /\ \A p \in Pids : os[p] = "unborn"
  BY DEF Phases
<1> USE <1>2
<1>3. TypeParts'
  <2>1. events' \in 0 .. MaxEvents BY EventsType
  <2>2. server' \in Servers
    <3>1. server \in Servers /\ process \in Nat /\ None \in Nat /\ 1 \in 0 .. 2 /\ 2 \in 0 .. 2 BY DEF None
    <3>2. server' = [server EXCEPT !.at = "up"] OBVIOUS
    <3>3. {"up", "stopping", "ending", "closing", "closed", "done"} \subseteq ServerSteps BY DEF ServerSteps
    <3> QED BY ONLY <3>1, <3>2, <3>3, ServerTyped
  <2> QED BY <2>1, <2>2, BackoffAssumption
<1>4. Spacing' /\ Records' /\ Members' /\ Minted'
  BY DEF Spacing, Records, Ids, OneRelaunch, EntryIsFree, CancelledIsAwaited, Members, Minted,
         Free, Listed, Servers
<1>5. Asks'
  BY DEF Asks, AskedOnce, AskedTwice, OrphansAreLast, Free, Listed, Watched, CanAsk, Servers
<1>6. Sequential' /\ Phases' /\ EndsForGood'
  BY DEF Sequential, Phases, EndsForGood, Alive, Free, Listed, Servers
<1>7. ReportedFirst' /\ ReachedOrReplaced' /\ Supervised'
  BY DEF ReportedFirst, ReachedOrReplaced, Supervised, Stopping, Free, Servers
<1> QED BY SameTypes, <1>3, <1>4, <1>5, <1>6, <1>7

\* The stop begins.
LEMMA StopBeginsHolds ==
  ASSUME IInv, StopBegins
  PROVE  IInv'
<1> USE PidsAreNat DEF IInv, StopBegins, osVars, roleVars, taskVars, busVars, history
<1>1. TypeParts BY SameTypes
<1> USE <1>1 DEF TypeParts
<1>3. TypeParts'
  <2>1. events' \in 0 .. MaxEvents BY EventsType
  <2>2. server' \in Servers
    <3>1. server \in Servers /\ process \in Nat /\ None \in Nat /\ 1 \in 0 .. 2 /\ 2 \in 0 .. 2 BY DEF None
    <3>2. server' = [server EXCEPT !.at = "stopping", !.call = 1] OBVIOUS
    <3>3. {"up", "stopping", "ending", "closing", "closed", "done"} \subseteq ServerSteps BY DEF ServerSteps
    <3> QED BY ONLY <3>1, <3>2, <3>3, ServerTyped
  <2> QED BY <2>1, <2>2, BackoffAssumption
<1>4. Spacing' /\ Records' /\ Members' /\ Minted'
  BY DEF Spacing, Records, Ids, OneRelaunch, EntryIsFree, CancelledIsAwaited, Members, Minted,
         Free, Listed, Servers
<1>5. Asks'
  BY DEF Asks, AskedOnce, AskedTwice, OrphansAreLast, Free, Listed, Watched, CanAsk, Servers
<1>6. Sequential' /\ Phases' /\ EndsForGood'
  BY DEF Sequential, Phases, EndsForGood, Alive, Free, Listed, Servers
<1>7. ReportedFirst' /\ ReachedOrReplaced' /\ Supervised'
  BY DEF ReportedFirst, ReachedOrReplaced, Supervised, Stopping, Free, Servers
<1> QED BY SameTypes, <1>3, <1>4, <1>5, <1>6, <1>7

\* The relaunch that was awaited is over: the process is next.
LEMMA StopCancelledHolds ==
  ASSUME IInv, StopCancelled
  PROVE  IInv'
<1> USE PidsAreNat DEF IInv, StopCancelled, PopsProcess, osVars, roleVars, taskVars, busVars, history
<1>1. TypeParts BY SameTypes
<1> USE <1>1 DEF TypeParts
<1>3. TypeParts'
  <2>1. events' \in 0 .. MaxEvents BY EventsType
  <2>2. server' \in Servers
    <3>1. server \in Servers /\ process \in Nat /\ None \in Nat /\ 1 \in 0 .. 2 /\ 2 \in 0 .. 2 BY DEF None
    <3>2. server' = [server EXCEPT !.at = "ending", !.awaits = process] OBVIOUS
    <3>3. {"up", "stopping", "ending", "closing", "closed", "done"} \subseteq ServerSteps BY DEF ServerSteps
    <3> QED BY ONLY <3>1, <3>2, <3>3, ServerTyped
  <2> QED BY <2>1, <2>2, BackoffAssumption
<1>4. Spacing' /\ Records' /\ Members' /\ Minted'
  BY DEF Spacing, Records, Ids, OneRelaunch, EntryIsFree, CancelledIsAwaited, Members, Minted,
         Free, Listed, Servers
<1>5. Asks'
  BY DEF Asks, AskedOnce, AskedTwice, OrphansAreLast, Free, Listed, Watched, CanAsk, Servers
<1>6. Sequential' /\ Phases' /\ EndsForGood'
  BY DEF Sequential, Phases, EndsForGood, Alive, Free, Listed, Servers
<1>7. ReportedFirst' /\ ReachedOrReplaced' /\ Supervised'
  BY DEF ReportedFirst, ReachedOrReplaced, Supervised, Stopping, Free, Servers
<1> QED BY SameTypes, <1>3, <1>4, <1>5, <1>6, <1>7

\* The process has ended.
LEMMA StopEndedHolds ==
  ASSUME IInv, StopEnded
  PROVE  IInv'
<1> USE PidsAreNat DEF IInv, StopEnded, osVars, roleVars, taskVars, busVars, history
<1>1. TypeParts BY SameTypes
<1> USE <1>1 DEF TypeParts
<1>3. TypeParts'
  <2>1. events' \in 0 .. MaxEvents BY EventsType
  <2>2. server' \in Servers
    <3>1. server \in Servers /\ process \in Nat /\ None \in Nat /\ 1 \in 0 .. 2 /\ 2 \in 0 .. 2 BY DEF None
    <3>2. server' = [server EXCEPT !.at = "closing", !.awaits = None] OBVIOUS
    <3>3. {"up", "stopping", "ending", "closing", "closed", "done"} \subseteq ServerSteps BY DEF ServerSteps
    <3> QED BY ONLY <3>1, <3>2, <3>3, ServerTyped
  <2> QED BY <2>1, <2>2, BackoffAssumption
<1>4. Spacing' /\ Records' /\ Members' /\ Minted'
  BY DEF Spacing, Records, Ids, OneRelaunch, EntryIsFree, CancelledIsAwaited, Members, Minted,
         Free, Listed, Servers
<1>5. Asks'
  BY DEF Asks, AskedOnce, AskedTwice, OrphansAreLast, Free, Listed, Watched, CanAsk, Servers
<1>6. Sequential' /\ Phases' /\ EndsForGood'
  BY DEF Sequential, Phases, EndsForGood, Alive, Free, Listed, Servers
<1>7. ReportedFirst' /\ ReachedOrReplaced' /\ Supervised'
  BY DEF ReportedFirst, ReachedOrReplaced, Supervised, Stopping, Free, Servers
<1> QED BY SameTypes, <1>3, <1>4, <1>5, <1>6, <1>7

\* The dispatcher is dropped.
LEMMA StopClosesHolds ==
  ASSUME IInv, StopCloses
  PROVE  IInv'
<1> USE PidsAreNat DEF IInv, StopCloses, osVars, roleVars, taskVars, busVars, history
<1>1. TypeParts BY SameTypes
<1> USE <1>1 DEF TypeParts
<1>3. TypeParts'
  <2>1. events' \in 0 .. MaxEvents BY EventsType
  <2>2. server' \in Servers
    <3>1. server \in Servers /\ process \in Nat /\ None \in Nat /\ 1 \in 0 .. 2 /\ 2 \in 0 .. 2 BY DEF None
    <3>2. server' = [server EXCEPT !.at = IF server.call = 1 THEN "closed" ELSE "done"] OBVIOUS
    <3>3. {"up", "stopping", "ending", "closing", "closed", "done"} \subseteq ServerSteps BY DEF ServerSteps
    <3> QED BY ONLY <3>1, <3>2, <3>3, ServerTyped
  <2> QED BY <2>1, <2>2, BackoffAssumption
<1>4. Spacing' /\ Records' /\ Members' /\ Minted'
  BY DEF Spacing, Records, Ids, OneRelaunch, EntryIsFree, CancelledIsAwaited, Members, Minted,
         Free, Listed, Servers
<1>5. Asks'
  BY DEF Asks, AskedOnce, AskedTwice, OrphansAreLast, Free, Listed, Watched, CanAsk, Servers
<1>6. Sequential' /\ Phases' /\ EndsForGood'
  BY DEF Sequential, Phases, EndsForGood, Alive, Free, Listed, Servers
<1>7. ReportedFirst' /\ ReachedOrReplaced' /\ Supervised'
  BY DEF ReportedFirst, ReachedOrReplaced, Supervised, Stopping, Free, Servers
<1> QED BY SameTypes, <1>3, <1>4, <1>5, <1>6, <1>7

\* The second stop.
LEMMA StopAgainHolds ==
  ASSUME IInv, StopAgain
  PROVE  IInv'
<1> USE PidsAreNat DEF IInv, StopAgain, osVars, roleVars, taskVars, busVars, history
<1>1. TypeParts BY SameTypes
<1> USE <1>1 DEF TypeParts
<1>3. TypeParts'
  <2>1. events' \in 0 .. MaxEvents BY EventsType
  <2>2. server' \in Servers
    <3>1. server \in Servers /\ process \in Nat /\ None \in Nat /\ 1 \in 0 .. 2 /\ 2 \in 0 .. 2 BY DEF None
    <3>2. server' = [server EXCEPT !.at = "stopping", !.call = 2] OBVIOUS
    <3>3. {"up", "stopping", "ending", "closing", "closed", "done"} \subseteq ServerSteps BY DEF ServerSteps
    <3> QED BY ONLY <3>1, <3>2, <3>3, ServerTyped
  <2> QED BY <2>1, <2>2, BackoffAssumption
<1>4. Spacing' /\ Records' /\ Members' /\ Minted'
  BY DEF Spacing, Records, Ids, OneRelaunch, EntryIsFree, CancelledIsAwaited, Members, Minted,
         Free, Listed, Servers
<1>5. Asks'
  BY DEF Asks, AskedOnce, AskedTwice, OrphansAreLast, Free, Listed, Watched, CanAsk, Servers
<1>6. Sequential' /\ Phases' /\ EndsForGood'
  BY DEF Sequential, Phases, EndsForGood, Alive, Free, Listed, Servers
<1>7. ReportedFirst' /\ ReachedOrReplaced' /\ Supervised'
  BY DEF ReportedFirst, ReachedOrReplaced, Supervised, Stopping, Free, Servers
<1> QED BY SameTypes, <1>3, <1>4, <1>5, <1>6, <1>7

-----------------------------------------------------------------------------
(* The steps that may ask for a relaunch. *)

\* What one queues: nothing, or the next relaunch of a process that is there
\* and has none listed.
Queued ==
  /\ process # None /\ entry = None
  /\ launched' = launched + 1 /\ entry' = launched + 1 /\ tasks' = tasks \cup {Asked}

LEMMA AskCases ==
  ASSUME NEW p, AskRelaunch(p)
  PROVE  \/ UNCHANGED taskVars /\ (process = None \/ entry # None \/ (p # None /\ process # p))
         \/ Queued /\ p \in {None, process}
BY DEF AskRelaunch, Asked, Queued

\* When a watcher or a membership asks, the relaunches there are, one at most,
\* are cancelled.
LEMMA AskerIsAlone ==
  ASSUME IInv, process # None, entry = None, Watched \/ CanAsk
  PROVE  /\ \A r \in tasks : ~Free(r)
         /\ \A r, s \in tasks : r = s
         /\ tasks # {} => ~(Watched /\ CanAsk)
<1> USE DEF IInv, Asks
<1>1. \A r \in tasks : ~Free(r)
  <2>1. \A r \in tasks : ~Listed(r)
    BY BoundsAssumption DEF Records, Ids, TypeOK, Listed, None
  <2> QED BY <2>1 DEF OrphansAreLast
<1>2. \A r, s \in tasks : r = s BY DEF AskedTwice
<1>3. tasks # {} => ~(Watched /\ CanAsk) BY DEF AskedOnce
<1> QED BY <1>1, <1>2, <1>3

\* What is queued uses up one of the two that may ask.
LEMMA QueuedHolds ==
  ASSUME IInv, TypeParts', Queued,
         UNCHANGED <<process, watcher, started, backoff, server, slipped>>,
         Watched' => Watched, CanAsk' => CanAsk,
         (Watched /\ ~Watched') \/ (CanAsk /\ ~CanAsk'),
         \A p \in Pids : os'[p] = os[p] \/ (os[p] = "up" /\ os'[p] = "ending"),
         blamed \subseteq blamed', process \in blamed' \/ os[process] # "up"
  PROVE  /\ Spacing' /\ Asks' /\ Records' /\ Sequential' /\ Phases'
         /\ EndsForGood' /\ ReportedFirst' /\ ReachedOrReplaced' /\ Supervised'
<1> USE DEF IInv, Queued
<1>0. PICK a : a = Asked OBVIOUS
<1>1. TypeParts BY SameTypes
<1>2. /\ \A r \in tasks : ~Free(r)
      /\ \A r, s \in tasks : r = s
      /\ tasks # {} => ~(Watched /\ CanAsk)
  BY AskerIsAlone
<1>3. /\ a.id = launched + 1 /\ a.at = "created" /\ a.cancelled = FALSE
      /\ a.target = None /\ tasks' = tasks \cup {a}
  BY <1>0 DEF Asked
<1>4. process \in Pids /\ launched \in Nat /\ launched' \in Nat BY <1>1 DEF TypeParts
<1>5. a \in tasks' /\ Free(a)' /\ Listed(a)' BY <1>3 DEF Free, Listed
<1>6. \A r \in tasks' : Free(r)' => r = a
  <2>1. \A r : Free(r)' <=> Free(r) BY DEF Free
  <2> QED BY <1>2, <1>3, <2>1
<1>7. Spacing' BY <1>3, <1>6 DEF Spacing, Free
<1>8. Asks'
  <2>1. \A r, s \in tasks' : r # s => r \in tasks \/ s \in tasks BY <1>3
  <2>2. \A r \in tasks' : Free(r)' => Listed(r)' BY <1>5, <1>6
  <2>3. ~(Watched' /\ CanAsk') OBVIOUS
  <2>4. tasks # {} => ~Watched' /\ ~CanAsk' BY <1>2
  <2>5. AskedOnce' BY <2>3 DEF AskedOnce
  <2>6. AskedTwice' BY <2>1, <2>4 DEF AskedTwice
  <2>7. OrphansAreLast' BY <2>2 DEF OrphansAreLast
  <2> QED BY <2>5, <2>6, <2>7 DEF Asks
<1>9. Records'
  <2>1. \A r \in tasks : r.id \in 1 .. launched BY DEF Records, Ids
  <2>2. Ids'
    <3>1. \A r \in tasks : r.id # a.id BY <1>3, <1>4, <2>1
    <3>2. \A r \in tasks' : r.id \in 1 .. launched' BY <1>3, <1>4, <2>1
    <3>3. \A r, s \in tasks' : r.id = s.id => r = s BY <1>2, <1>3, <3>1
    <3> QED BY <3>2, <3>3 DEF Ids
  <2>3. OneRelaunch' BY <1>6 DEF OneRelaunch, Free
  <2>4. EntryIsFree' BY <1>5 DEF EntryIsFree
  <2>5. CancelledIsAwaited' BY <1>3 DEF Records, CancelledIsAwaited
  <2> QED BY <2>2, <2>3, <2>4, <2>5 DEF Records
<1>10. Sequential'
  <2>1. \A r \in tasks' : Free(r)' => r.at = "created" BY <1>3, <1>6
  <2>2. \A p \in Pids : Alive(p)' => Alive(p) BY DEF Alive
  <2> QED BY <2>1, <2>2 DEF Sequential
<1>11. Phases' BY <1>4, PidsAreNat DEF Phases
<1>12. EndsForGood'
  <2>1. \A r \in tasks' : Free(r)' => r.at = "created" /\ Listed(r)' BY <1>3, <1>5, <1>6
  <2> QED BY <2>1 DEF EndsForGood
<1>13. ReportedFirst' BY <1>4, <1>6 DEF ReportedFirst
<1>14. ReachedOrReplaced' /\ Supervised' BY <1>5 DEF ReachedOrReplaced, Supervised, Listed
<1> QED BY <1>7, <1>8, <1>9, <1>10, <1>11, <1>12, <1>13, <1>14

\* The watcher sees the end of its process.
LEMMA WatchEndsHolds ==
  ASSUME IInv, NEW p \in Pids, WatchEnds(p)
  PROVE  IInv'
<1> USE PidsAreNat DEF IInv, WatchEnds, osVars, roleVars, busVars, history
<1>1. TypeParts BY SameTypes
<1>2. TypeParts'
  <2>1. events' \in 0 .. MaxEvents BY EventsType
  <2>2. entry' \in Nat /\ launched' \in Nat /\ tasks' \in SUBSET Relaunches BY AskTyped
  <2> QED BY <1>1, <2>1, <2>2 DEF TypeParts
<1>3. Members' /\ Minted'
  <2>1. \A r \in tasks' : r \in tasks \/ r.at = "created" BY AskCases DEF Queued, Asked, taskVars
  <2>2. Members' BY <1>1 DEF TypeParts, Members
  <2>3. \A q \in Pids : os'[q] # "unborn" <=> os[q] # "unborn" BY <1>1 DEF TypeParts, Alive
  <2> QED BY <1>1, <2>1, <2>2, <2>3 DEF TypeParts, Minted, Free
<1>4. CASE Queued /\ process = p
  <2> USE <1>1, <1>4 DEF TypeParts, Queued
  <2>1. Watched /\ ~Watched' BY DEF Watched
  <2>2. CanAsk' => CanAsk BY DEF CanAsk
  <2>3. os' = os /\ os[process] # "up" /\ blamed' = blamed OBVIOUS
  <2> HIDE DEF Queued
  <2> QED BY SameTypes, <1>2, <1>3, <2>1, <2>2, <2>3, QueuedHolds
<1>5. CASE UNCHANGED taskVars /\ (pid' = pid /\ (process # p \/ entry # None))
  <2> USE <1>1, <1>5 DEF TypeParts, taskVars
  <2>1. Spacing' /\ Records' BY DEF Spacing, Records, Ids, OneRelaunch, EntryIsFree, CancelledIsAwaited, Free, Listed, Servers
  <2>2. Asks' BY DEF Asks, AskedOnce, AskedTwice, OrphansAreLast, Free, Listed, Watched, CanAsk, Members
  <2>3. Sequential' /\ Phases' /\ EndsForGood' BY DEF Sequential, Phases, EndsForGood, Alive, Free, Listed, Servers
  <2>4. ReportedFirst' BY DEF ReportedFirst, Free
  <2>5. ReachedOrReplaced' /\ Supervised'
    BY DEF ReachedOrReplaced, Supervised, Stopping, Members, Records, EntryIsFree, Listed
  <2> QED BY SameTypes, <1>2, <1>3, <2>1, <2>2, <2>3, <2>4, <2>5
<1> QED BY <1>4, <1>5, AskCases

\* A membership ends.
LEMMA MemberLostHolds ==
  ASSUME IInv, MemberLost
  PROVE  IInv'
<1> USE PidsAreNat DEF IInv, MemberLost, osVars, roleVars, busVars, history
<1>1. TypeParts BY SameTypes
<1>2. TypeParts'
  <2>1. events' \in 0 .. MaxEvents BY EventsType
  <2>2. entry' \in Nat /\ launched' \in Nat /\ tasks' \in SUBSET Relaunches BY AskTyped
  <2> QED BY <1>1, <2>1, <2>2 DEF TypeParts
<1>3. Members' /\ Minted'
  <2>1. \A r \in tasks' : r \in tasks \/ r.at = "created" BY AskCases DEF Queued, Asked, taskVars
  <2>2. Members' BY <1>1 DEF TypeParts, Members
  <2>3. \A p \in Pids : os'[p] # "unborn" <=> os[p] # "unborn" BY <1>1 DEF TypeParts, Alive
  <2> QED BY <1>1, <2>1, <2>2, <2>3 DEF TypeParts, Minted, Free
<1>4. CASE Queued /\ pid = process
  <2> USE <1>1, <1>4 DEF TypeParts, Queued
  <2>1. CanAsk /\ ~CanAsk' BY DEF CanAsk, Members
  <2>2. Watched' => Watched BY DEF Watched
  <2>3. \A p \in Pids : os'[p] = os[p] \/ (os[p] = "up" /\ os'[p] = "ending") BY DEF Alive
  <2>4. process \in blamed' BY DEF Members
  <2> HIDE DEF Queued
  <2> QED BY SameTypes, <1>2, <1>3, <2>1, <2>2, <2>3, <2>4, QueuedHolds
<1>5. CASE UNCHANGED taskVars /\ (TRUE)
  <2> USE <1>1, <1>5 DEF TypeParts, taskVars
  <2>1. Spacing' /\ Records' BY DEF Spacing, Records, Ids, OneRelaunch, EntryIsFree, CancelledIsAwaited, Free, Listed, Servers
  <2>2. Asks' BY DEF Asks, AskedOnce, AskedTwice, OrphansAreLast, Free, Listed, Watched, CanAsk, Members
  <2>3. Sequential' /\ Phases' /\ EndsForGood' BY DEF Sequential, Phases, EndsForGood, Alive, Free, Listed, Servers
  <2>4. ReportedFirst' BY DEF ReportedFirst, Free
  <2>5. ReachedOrReplaced' /\ Supervised'
    BY DEF ReachedOrReplaced, Supervised, Stopping, Members, Records, EntryIsFree, Listed
  <2> QED BY SameTypes, <1>2, <1>3, <2>1, <2>2, <2>3, <2>4, <2>5
<1> QED BY <1>4, <1>5, AskCases

\* A member does not confirm.
LEMMA ForgetFailsHolds ==
  ASSUME IInv, ForgetFails
  PROVE  IInv'
<1> USE PidsAreNat DEF IInv, ForgetFails, osVars, roleVars, busVars, history
<1>1. TypeParts BY SameTypes
<1>2. TypeParts'
  <2>1. events' \in 0 .. MaxEvents BY EventsType
  <2>2. entry' \in Nat /\ launched' \in Nat /\ tasks' \in SUBSET Relaunches BY AskTyped
  <2> QED BY <1>1, <2>1, <2>2 DEF TypeParts
<1>3. Members' /\ Minted'
  <2>1. \A r \in tasks' : r \in tasks \/ r.at = "created" BY AskCases DEF Queued, Asked, taskVars
  <2>2. Members' BY <1>1 DEF TypeParts, Members
  <2>3. \A p \in Pids : os'[p] # "unborn" <=> os[p] # "unborn" BY <1>1 DEF TypeParts, Alive
  <2> QED BY <1>1, <2>1, <2>2, <2>3 DEF TypeParts, Minted, Free
<1>4. CASE Queued /\ pid = process
  <2> USE <1>1, <1>4 DEF TypeParts, Queued
  <2>1. CanAsk /\ ~CanAsk' BY DEF CanAsk, Members
  <2>2. Watched' => Watched BY DEF Watched
  <2>3. \A p \in Pids : os'[p] = os[p] \/ (os[p] = "up" /\ os'[p] = "ending") BY DEF Alive
  <2>4. process \in blamed' BY DEF Members
  <2> HIDE DEF Queued
  <2> QED BY SameTypes, <1>2, <1>3, <2>1, <2>2, <2>3, <2>4, QueuedHolds
<1>5. CASE UNCHANGED taskVars /\ (process # pid \/ entry # None)
  <2> USE <1>1, <1>5 DEF TypeParts, taskVars
  <2>1. Spacing' /\ Records' BY DEF Spacing, Records, Ids, OneRelaunch, EntryIsFree, CancelledIsAwaited, Free, Listed, Servers
  <2>2. Asks' BY DEF Asks, AskedOnce, AskedTwice, OrphansAreLast, Free, Listed, Watched, CanAsk, Members
  <2>3. Sequential' /\ Phases' /\ EndsForGood' BY DEF Sequential, Phases, EndsForGood, Alive, Free, Listed, Servers
  <2>4. ReportedFirst' BY DEF ReportedFirst, Free
  <2>5. ReachedOrReplaced' /\ Supervised'
    BY DEF ReachedOrReplaced, Supervised, Stopping, Members, Records, EntryIsFree, Listed
  <2> QED BY SameTypes, <1>2, <1>3, <2>1, <2>2, <2>3, <2>4, <2>5
<1> QED BY <1>4, <1>5, AskCases

-----------------------------------------------------------------------------
(* Time passes. *)

\* The relaunches stay what they are, but for what is left of their sleep.
LEMMA ClockTasks ==
  ASSUME TypeOK, Clock
  PROVE  /\ \A s \in tasks' : \E r \in tasks :
              /\ s = [r EXCEPT !.delay = Greatest(r.delay - 1, 0)]
              /\ s.id = r.id /\ s.at = r.at /\ s.target = r.target /\ s.cancelled = r.cancelled
              /\ s.delay \in 0 .. Ceiling /\ s.delay + 1 >= r.delay /\ s \in Relaunches
         /\ \A r \in tasks : \E s \in tasks' :
              s.id = r.id /\ s.at = r.at /\ s.target = r.target /\ s.cancelled = r.cancelled
<1>1. ASSUME NEW r \in tasks
      PROVE  LET s == [r EXCEPT !.delay = Greatest(r.delay - 1, 0)]
             IN  /\ s.id = r.id /\ s.at = r.at /\ s.target = r.target /\ s.cancelled = r.cancelled
                 /\ s.delay \in 0 .. Ceiling /\ s.delay + 1 >= r.delay /\ s \in Relaunches
  <2> DEFINE left == Greatest(r.delay - 1, 0)
  <2>1. r \in Relaunches BY DEF TypeOK, Relaunches
  <2>2. left \in 0 .. Ceiling /\ left + 1 >= r.delay
    BY <2>1, BackoffAssumption DEF Relaunches, Greatest
  <2> HIDE DEF left
  <2>3. [r EXCEPT !.delay = left] \in Relaunches BY <2>1, <2>2 DEF Relaunches
  <2>4. [r EXCEPT !.delay = left].delay = left BY <2>1 DEF Relaunches
  <2>5. LET s == [r EXCEPT !.delay = left]
        IN  s.id = r.id /\ s.at = r.at /\ s.target = r.target /\ s.cancelled = r.cancelled
    BY <2>1 DEF Relaunches
  <2> QED BY <2>2, <2>3, <2>4, <2>5 DEF left
<1>2. tasks' = {[r EXCEPT !.delay = Greatest(r.delay - 1, 0)] : r \in tasks} BY DEF Clock
<1> QED BY <1>1, <1>2

\* Time passes.
LEMMA ClockHolds ==
  ASSUME IInv, Clock
  PROVE  IInv'
<1> USE PidsAreNat DEF IInv, osVars, roleVars, busVars, history
<1>1. TypeParts BY SameTypes
<1>2. /\ started' = Least(started + 1, Ceiling)
      /\ joined' = IF joined = Never THEN Never ELSE Least(joined + 1, Reset)
      /\ UNCHANGED <<os, watch, process, watcher, backoff, entry, launched, minted, connected,
                     calling, pid, server, failed, slipped, blamed, events>>
  BY DEF Clock
<1>3. \A s \in tasks' : \E r \in tasks :
         /\ s = [r EXCEPT !.delay = Greatest(r.delay - 1, 0)]
         /\ s.id = r.id /\ s.at = r.at /\ s.target = r.target /\ s.cancelled = r.cancelled
         /\ s.delay \in 0 .. Ceiling /\ s.delay + 1 >= r.delay /\ s \in Relaunches
  BY ClockTasks
<1>4. \A r \in tasks : \E s \in tasks' :
         s.id = r.id /\ s.at = r.at /\ s.target = r.target /\ s.cancelled = r.cancelled
  BY ClockTasks
<1>5. started' \in 0 .. Ceiling /\ joined' \in {Never} \cup 0 .. Reset /\ (joined' = Never <=> joined = Never)
  BY <1>1, <1>2, BackoffAssumption DEF TypeParts, Least, Never
<1>6. TypeParts' BY <1>1, <1>2, <1>3, <1>5 DEF TypeParts
<1>7. Spacing'
  <2>1. backoff' = 0 \/ backoff' >= Interval BY <1>2 DEF Spacing
  <2>2. ASSUME NEW s \in tasks', ~s.cancelled, s.at = "sleeping"
        PROVE  started' + s.delay >= Interval
    <3>1. PICK r \in tasks : /\ s.at = r.at /\ s.cancelled = r.cancelled
                             /\ s.delay \in 0 .. Ceiling /\ s.delay + 1 >= r.delay
      BY <1>3
    <3>2. started + r.delay >= Interval /\ r.delay \in 0 .. Ceiling /\ started \in 0 .. Ceiling
      BY <2>2, <3>1, <1>1 DEF Spacing, TypeParts, Relaunches
    <3>3. started' = started + 1 \/ started' = Ceiling BY <1>2 DEF Least
    <3> QED BY <3>1, <3>2, <3>3, BackoffAssumption
  <2> QED BY <2>1, <2>2 DEF Spacing
<1>8. Asks'
  <2>1. (Watched' <=> Watched) /\ (CanAsk' <=> CanAsk) BY <1>2, <1>5 DEF Watched, CanAsk
  <2>2. \A s \in tasks' : \E r \in tasks : Free(s) = Free(r) /\ Listed(s)' = Listed(r)
    BY <1>2, <1>3 DEF Free, Listed
  <2>3. AskedOnce' BY <1>2, <1>3, <2>1 DEF Asks, AskedOnce
  <2>4. AskedTwice'
    <3>1. SUFFICES ASSUME NEW s \in tasks', NEW t \in tasks', s # t, process' # None
                   PROVE  ~Watched' /\ ~CanAsk'
      BY DEF AskedTwice
    <3>2. \E q, r \in tasks : q # r BY <1>3, <3>1
    <3> QED BY <1>2, <2>1, <3>1, <3>2 DEF Asks, AskedTwice
  <2>5. OrphansAreLast'
    <3>1. \A s : Free(s)' = Free(s) BY DEF Free
    <3> QED BY <1>2, <2>1, <2>2, <3>1 DEF Asks, OrphansAreLast
  <2> QED BY <2>3, <2>4, <2>5 DEF Asks
<1>9. Records'
  <2>1. Ids' BY <1>2, <1>3 DEF Records, Ids
  <2>2. OneRelaunch' BY <1>3 DEF Records, OneRelaunch
  <2>3. EntryIsFree' BY <1>2, <1>4 DEF Records, EntryIsFree, Listed, Free
  <2>4. CancelledIsAwaited' BY <1>2, <1>3 DEF Records, CancelledIsAwaited
  <2> QED BY <2>1, <2>2, <2>3, <2>4 DEF Records
<1>10. Members' /\ Minted'
  <2>1. Members' BY <1>2, <1>5 DEF Members
  <2>2. Minted' BY <1>2, <1>3 DEF Minted, Free
  <2> QED BY <2>1, <2>2
<1>11. Sequential' BY <1>2, <1>3 DEF Sequential, Free, Alive
<1>12. Phases'
  <2>1. tasks = {} => tasks' = {} BY <1>3
  <2> QED BY <1>2, <2>1 DEF Phases
<1>13. EndsForGood' BY <1>2, <1>3 DEF EndsForGood, Free, Listed
<1>14. ReportedFirst' BY <1>2, <1>3 DEF ReportedFirst, Free
<1>15. ReachedOrReplaced' /\ Supervised'
  BY <1>2, <1>4 DEF ReachedOrReplaced, Supervised, Stopping
<1> QED BY SameTypes, <1>6, <1>7, <1>8, <1>9, <1>10, <1>11, <1>12, <1>13, <1>14, <1>15

-----------------------------------------------------------------------------
(* The steps of a relaunch. *)

\* One that is not cancelled is the only one, and nobody else is listed.
LEMMA FreeIsAlone ==
  ASSUME IInv, NEW r \in tasks, Free(r)
  PROVE  (\A s \in tasks : Free(s) => s = r) /\ entry \in {None, r.id}
BY DEF IInv, Records, OneRelaunch, EntryIsFree, Free, Listed

\* Some relaunches are over, and nothing else changes but what was minted.
LEMMA FewerHolds ==
  ASSUME IInv, TypeParts', tasks' \subseteq tasks,
         UNCHANGED <<osVars, roleVars, launched, connected, calling, pid, server, blamed>>,
         minted' = minted \/ (minted' > minted /\ tasks # {}),
         entry' # None => entry' = entry /\ \E t \in tasks' : Listed(t) /\ Free(t),
         \A t \in tasks' : Free(t) => Listed(t)' \/ (process # None => ~Watched /\ ~CanAsk),
         ~slipped' => ~slipped /\ \A t \in tasks' : Free(t) => Listed(t)',
         Stopping \/ Supervised', Stopping \/ ReachedOrReplaced'
  PROVE  IInv'
<1> USE DEF IInv, osVars, roleVars
<1>1. TypeParts BY SameTypes
<1>2. \A t : Free(t)' <=> Free(t) BY DEF Free
<1>3. Spacing' BY DEF Spacing
<1>4. (Watched' <=> Watched) /\ (CanAsk' <=> CanAsk) BY DEF Watched, CanAsk
<1>5. Asks' BY <1>2, <1>4 DEF Asks, AskedOnce, AskedTwice, OrphansAreLast
<1>6. Records' BY <1>2 DEF Records, Ids, OneRelaunch, EntryIsFree, CancelledIsAwaited, Listed
<1>7. Members' BY DEF Members
<1>8. Minted'
  <2>1. minted \in Nat /\ minted' \in Nat /\ minted' >= minted /\ (\A p \in Pids : p \in Nat)
    BY <1>1, PidsAreNat, BoundsAssumption DEF TypeParts
  <2>2. \A t \in tasks : t.target \in Nat BY <1>1, PidsAreNat DEF TypeParts, Relaunches, None
  <2>3. \A t \in tasks' : Free(t) /\ t.at = "spawning" => t.target <= minted' BY <2>1, <2>2 DEF Minted
  <2> QED BY <1>2, <2>1, <2>3 DEF Minted
<1>9. Sequential' BY <1>2 DEF Sequential, Alive
<1>10. Phases' BY DEF Phases
<1>11. EndsForGood' BY <1>2 DEF EndsForGood
<1>12. ReportedFirst' BY <1>2 DEF ReportedFirst
<1>13. ReachedOrReplaced' BY <1>1, PidsAreNat DEF ReachedOrReplaced, Stopping, TypeParts
<1>14. Supervised' BY <1>1 DEF Supervised, Stopping, Phases, TypeParts, Servers
<1> QED BY SameTypes, <1>3, <1>5, <1>6, <1>7, <1>8, <1>9, <1>10, <1>11, <1>12, <1>13, <1>14

\* A relaunch gets further.
LEMMA FurtherHolds ==
  ASSUME IInv, TypeParts', NEW r \in tasks, Free(r), NEW s, s.id = r.id, ~s.cancelled,
         tasks' = (tasks \ {r}) \cup {s}, s.at \in {"ending", "sleeping", "spawning"},
         UNCHANGED <<watch, process, watcher, started, joined, entry, launched, connected,
                     calling, pid, server, failed, slipped, blamed>>,
         \A p \in Pids : os'[p] = os[p] \/ (os[p] = "up" /\ os'[p] = "ending"),
         minted' >= minted, backoff' = 0 \/ backoff' >= Interval,
         s.at = "ending" => s.target \in Pids /\ \A p \in Pids : Alive(p) => p = s.target,
         s.at # "ending" => \A p \in Pids : ~Alive(p),
         s.at = "sleeping" => started + s.delay >= Interval,
         s.at = "spawning" => /\ s.target \in Pids /\ os'[s.target] = "unborn"
                              /\ s.target <= minted' /\ HasDispatcher
  PROVE  IInv'
<1> USE DEF IInv
<1>1. TypeParts BY SameTypes
<1>2. \A t : (Free(t)' <=> Free(t)) /\ (Listed(t)' <=> Listed(t)) BY DEF Free, Listed
<1>3. /\ \A t \in tasks' : t = s \/ (t \in tasks /\ ~Free(t))
      /\ s \in tasks' /\ Free(s) /\ (Listed(s) <=> Listed(r))
  BY FreeIsAlone DEF Free, Listed
<1>4. Spacing'
  <2>1. \A t \in tasks' : ~t.cancelled => t = s BY <1>3 DEF Free
  <2> QED BY <2>1 DEF Spacing
<1>5. (Watched' <=> Watched) /\ (process # None /\ CanAsk' => CanAsk)
  BY <1>1 DEF Watched, CanAsk, TypeParts
<1>6. Asks'
  <2>1. AskedOnce' BY <1>5 DEF Asks, AskedOnce
  <2>2. AskedTwice'
    <3>1. SUFFICES ASSUME NEW t \in tasks', NEW u \in tasks', t # u, process # None
                   PROVE  ~Watched /\ ~CanAsk
      BY <1>5 DEF AskedTwice
    <3>2. \E v \in tasks : v # r BY <3>1
    <3> QED BY <3>1, <3>2 DEF Asks, AskedTwice
  <2>3. OrphansAreLast' BY <1>2, <1>3, <1>5 DEF Asks, OrphansAreLast
  <2> QED BY <2>1, <2>2, <2>3 DEF Asks
<1>7. Records'
  <2>1. Ids'
    <3>1. \A t \in tasks : t # r => t.id # r.id BY DEF Records, Ids
    <3>2. \A t \in tasks' : t = s \/ (t \in tasks /\ t # r) OBVIOUS
    <3>3. \A t, u \in tasks' : t.id = u.id => t = u BY <3>1, <3>2 DEF Records, Ids
    <3>4. \A t \in tasks' : t.id \in 1 .. launched' BY <3>2 DEF Records, Ids
    <3> QED BY <3>3, <3>4 DEF Ids
  <2>2. OneRelaunch' BY <1>3 DEF OneRelaunch, Free
  <2>3. EntryIsFree' BY <1>2, <1>3 DEF Records, EntryIsFree
  <2>4. CancelledIsAwaited' BY <1>3 DEF Records, CancelledIsAwaited
  <2> QED BY <2>1, <2>2, <2>3, <2>4 DEF Records
<1>8. Members' BY <1>1, PidsAreNat DEF Members, TypeParts, None
<1>9. Minted'
  <2>1. minted \in Nat /\ minted' \in Nat /\ (\A p \in Pids : p \in Nat)
    BY <1>1, PidsAreNat, BoundsAssumption DEF TypeParts
  <2>2. \A t \in tasks' : Free(t) => t = s BY <1>3
  <2>3. \A p \in Pids : os'[p] # "unborn" => p <= minted' BY <2>1 DEF Minted
  <2>4. process # None => process \in Pids BY <1>1 DEF TypeParts
  <2> QED BY <1>2, <2>2, <2>3, <2>4 DEF Minted
<1>10. Sequential'
  <2>1. \A p \in Pids : Alive(p)' => Alive(p) BY DEF Alive
  <2>2. \A t \in tasks' : Free(t)' => t = s BY <1>2, <1>3
  <2> QED BY <2>1, <2>2 DEF Sequential
<1>11. Phases' BY DEF Phases
<1>12. EndsForGood'
  <2>1. \A t \in tasks' : Free(t)' => t = s BY <1>2, <1>3
  <2> QED BY <1>2, <1>3, <2>1 DEF EndsForGood, HasDispatcher
<1>13. ReportedFirst'
  <2>1. \A t \in tasks' : Free(t)' => t = s BY <1>2, <1>3
  <2> QED BY <2>1 DEF ReportedFirst
<1>14. ReachedOrReplaced' /\ Supervised'
  <2>1. (\E t \in tasks : t.id = entry) => \E t \in tasks' : t.id = entry' OBVIOUS
  <2> QED BY <1>1, <2>1, PidsAreNat DEF ReachedOrReplaced, Supervised, Stopping, TypeParts
<1> QED BY SameTypes, <1>4, <1>6, <1>7, <1>8, <1>9, <1>10, <1>11, <1>12, <1>13, <1>14

\* A relaunch that was not cancelled is over: there is no other, and nothing
\* was dropped but its own entry.
LEMMA OverDrops ==
  ASSUME IInv, NEW r \in tasks, Free(r), Over(r)
  PROVE  tasks' = tasks \ {r} /\ entry' = None /\ slipped' = slipped /\ \A t \in tasks' : ~Free(t)
<1>1. (\A t \in tasks : Free(t) => t = r) /\ entry \in {None, r.id} BY FreeIsAlone
<1>2. slipped \in BOOLEAN BY DEF IInv, TypeOK
<1> QED BY <1>1, <1>2 DEF Over

\* A relaunch backs off, once no process of the role is alive.
LEMMA BacksOffHolds ==
  ASSUME IInv, NEW r \in tasks, Free(r), BacksOff(r), \A p \in Pids : ~Alive(p),
         UNCHANGED <<osVars, process, watcher, started, joined, launched, busVars, server,
                     failed, blamed, events>>
  PROVE  IInv'
<1> USE DEF osVars, busVars
<1>1. TypeParts BY SameTypes DEF IInv
<1>2. /\ tasks' \in SUBSET Relaunches /\ backoff' \in 0 .. Ceiling /\ backoff' >= Interval
      /\ \E d \in 0 .. Ceiling : /\ tasks' = (tasks \ {r}) \cup {[r EXCEPT !.at = "sleeping", !.delay = d]}
                                 /\ started + d >= Interval
  BY BackoffTyped DEF IInv
<1>3. PICK d \in 0 .. Ceiling : /\ tasks' = (tasks \ {r}) \cup {[r EXCEPT !.at = "sleeping", !.delay = d]}
                                /\ started + d >= Interval
  BY <1>2
<1>4. entry' = entry /\ slipped' = slipped BY DEF BacksOff
<1>5. TypeParts' BY <1>1, <1>2, <1>4 DEF TypeParts
<1>6. PICK s : s = [r EXCEPT !.at = "sleeping", !.delay = d] OBVIOUS
<1>7. s.id = r.id /\ ~s.cancelled /\ s.at = "sleeping" /\ s.delay = d
  BY <1>1, <1>6 DEF TypeParts, Relaunches, Free
<1>8. minted' >= minted BY <1>1 DEF TypeParts
<1>9. tasks' = (tasks \ {r}) \cup {s} BY <1>3, <1>6
<1>10. UNCHANGED <<watch, process, watcher, started, joined, entry, launched, connected,
                   calling, pid, server, failed, slipped, blamed>> /\ os' = os
  BY <1>4
<1> QED BY <1>2, <1>3, <1>5, <1>7, <1>8, <1>9, <1>10, FurtherHolds

\* The first step of a relaunch.
LEMMA RelaunchStartsHolds ==
  ASSUME IInv, NEW r \in tasks, RelaunchStarts(r)
  PROVE  IInv'
<1> USE DEF busVars
<1>1. TypeParts BY SameTypes DEF IInv
<1>2. Free(r) /\ r.at = "created" /\ r \in Relaunches BY <1>1 DEF RelaunchStarts, Free, TypeParts
<1>3. UNCHANGED <<watch, process, watcher, started, joined, launched, minted, connected, calling,
                  pid, server, failed, blamed, events>>
  BY DEF RelaunchStarts
<1>4. CASE process = None /\ Over(r) /\ UNCHANGED <<os, backoff>>
  <2>1. tasks' = tasks \ {r} /\ entry' = None /\ slipped' = slipped /\ \A t \in tasks' : ~Free(t)
    BY <1>2, <1>4, OverDrops
  <2>2. TypeParts' BY <1>1, <1>3, <1>4, <2>1 DEF TypeParts, None
  <2>3. Supervised' BY <1>3, <1>4 DEF IInv, Phases, Supervised
  <2>4. ReachedOrReplaced' BY <1>3, <1>4, PidsAreNat DEF ReachedOrReplaced
  <2> QED BY <1>3, <1>4, <2>1, <2>2, <2>3, <2>4, FewerHolds DEF osVars, roleVars
<1>5. CASE process # None /\ os[process] = "dead" /\ BacksOff(r) /\ UNCHANGED os
  <2>1. \A p \in Pids : ~Alive(p) BY <1>5 DEF IInv, Sequential, Alive
  <2> QED BY <1>2, <1>3, <1>5, <2>1, BacksOffHolds DEF osVars
<1>6. CASE /\ process # None /\ os' = [os EXCEPT ![process] = "ending"] /\ os[process] # "dead"
           /\ Becomes(r, [r EXCEPT !.at = "ending", !.target = process])
           /\ UNCHANGED <<entry, slipped, backoff>>
  <2>1. PICK s : s = [r EXCEPT !.at = "ending", !.target = process] OBVIOUS
  <2>2. process \in Pids BY <1>1, <1>6 DEF TypeParts
  <2>3. s \in Relaunches /\ s.id = r.id /\ ~s.cancelled /\ s.at = "ending" /\ s.target = process
    BY <1>2, <2>1, <2>2 DEF Relaunches, TaskSteps, Free
  <2>4. tasks' = (tasks \ {r}) \cup {s} BY <1>6, <2>1 DEF Becomes
  <2>5. \A p \in Pids : os'[p] = os[p] \/ (os[p] = "up" /\ os'[p] = "ending")
    BY <1>1, <1>6, <2>2 DEF TypeParts, IInv, Minted
  <2>6. \A p \in Pids : Alive(p) => p = process BY <1>6 DEF IInv, Sequential
  <2>7. os' \in [Pids -> {"unborn", "up", "ending", "dead"}] /\ tasks' \in SUBSET Relaunches
    BY <1>1, <1>6, <2>3, <2>4 DEF TypeParts
  <2>8. TypeParts' BY <1>1, <1>3, <1>6, <2>7 DEF TypeParts
  <2>9. minted' >= minted /\ (backoff' = 0 \/ backoff' >= Interval)
    BY <1>1, <1>3, <1>6 DEF TypeParts, IInv, Spacing
  <2>10. UNCHANGED <<watch, process, watcher, started, joined, entry, launched, connected,
                     calling, pid, server, failed, slipped, blamed>>
    BY <1>3, <1>6
  <2> QED BY <1>2, <2>2, <2>3, <2>4, <2>5, <2>6, <2>8, <2>9, <2>10, FurtherHolds
<1> QED BY <1>4, <1>5, <1>6 DEF RelaunchStarts

\* The process it ended is dead.
LEMMA RelaunchEndedHolds ==
  ASSUME IInv, NEW r \in tasks, RelaunchEnded(r)
  PROVE  IInv'
<1>1. Free(r) /\ BacksOff(r) BY DEF RelaunchEnded, Free
<1>2. \A p \in Pids : ~Alive(p) BY <1>1 DEF RelaunchEnded, IInv, Sequential, Alive
<1> QED BY <1>1, <1>2, BacksOffHolds DEF RelaunchEnded

\* Its sleep is over.
LEMMA RelaunchWakesHolds ==
  ASSUME IInv, NEW r \in tasks, RelaunchWakes(r)
  PROVE  IInv'
<1>1. TypeParts BY SameTypes DEF IInv
<1>2. Free(r) /\ r.at = "sleeping" /\ r \in Relaunches BY <1>1 DEF RelaunchWakes, Free, TypeParts
<1>3. UNCHANGED <<osVars, roleVars, launched, connected, calling, pid, server, failed, blamed, events>>
  BY DEF RelaunchWakes
<1>4. \A p \in Pids : ~Alive(p) BY <1>2 DEF IInv, Sequential
<1>5. minted \in 0 .. MaxPids /\ server \in Servers /\ process \in Pids \cup {None} BY <1>1 DEF TypeParts
<1>6. CASE ~HasDispatcher /\ Over(r) /\ UNCHANGED minted
  <2>1. tasks' = tasks \ {r} /\ entry' = None /\ slipped' = slipped /\ \A t \in tasks' : ~Free(t)
    BY <1>2, <1>6, OverDrops
  <2>2. TypeParts' BY <1>1, <1>3, <1>6, <2>1 DEF TypeParts, None, osVars, roleVars
  <2>3. Stopping BY <1>5, <1>6 DEF HasDispatcher, Stopping, IInv, Phases, Servers
  <2> QED BY <1>3, <1>6, <2>1, <2>2, <2>3, FewerHolds
<1>7. CASE /\ HasDispatcher /\ minted < MaxPids /\ minted' = minted + 1
           /\ Becomes(r, [r EXCEPT !.at = "spawning", !.target = minted + 1])
           /\ UNCHANGED <<entry, slipped>>
  <2>1. PICK s : s = [r EXCEPT !.at = "spawning", !.target = minted + 1] OBVIOUS
  <2>2. minted + 1 \in Pids /\ minted' >= minted BY <1>5, <1>7, BoundsAssumption DEF Pids
  <2>3. s \in Relaunches /\ s.id = r.id /\ ~s.cancelled /\ s.at = "spawning" /\ s.target = minted + 1
    BY <1>2, <2>1, <2>2 DEF Relaunches, TaskSteps, Free
  <2>4. tasks' = (tasks \ {r}) \cup {s} BY <1>7, <2>1 DEF Becomes
  <2>5. os[minted + 1] = "unborn" BY <1>5, <2>2 DEF IInv, Minted
  <2>6. TypeParts'
    <3>1. minted' \in 0 .. MaxPids BY <1>5, <1>7, BoundsAssumption
    <3>2. tasks' \in SUBSET Relaunches BY <1>1, <2>3, <2>4 DEF TypeParts
    <3> QED BY <1>1, <1>3, <1>7, <3>1, <3>2 DEF TypeParts, osVars, roleVars
  <2>7. UNCHANGED <<watch, process, watcher, started, joined, entry, launched, connected,
                    calling, pid, server, failed, slipped, blamed>> /\ os' = os
    BY <1>3, <1>7 DEF osVars, roleVars
  <2>8. backoff' = 0 \/ backoff' >= Interval BY <1>3 DEF roleVars, IInv, Spacing
  <2>9. s.target <= minted' BY <1>5, <1>7, <2>3
  <2> QED BY <1>2, <1>4, <1>7, <2>2, <2>3, <2>4, <2>5, <2>6, <2>7, <2>8, <2>9, FurtherHolds
<1>8. ~(process # None /\ Alive(process)) BY <1>4, <1>5
<1> QED BY <1>6, <1>7, <1>8 DEF RelaunchWakes

\* The process is there: it is the only one, and so was the relaunch.
LEMMA RelaunchSpawnedHolds ==
  ASSUME IInv, NEW r \in tasks, RelaunchSpawned(r)
  PROVE  IInv'
<1> USE PidsAreNat DEF RelaunchSpawned, Born, busVars
<1>1. TypeParts BY SameTypes DEF IInv
<1>2. Free(r) /\ r.at = "spawning" /\ Over(r) BY DEF Free
<1>3. tasks' = {} /\ entry' = None /\ slipped' = slipped
  <2>1. \A t \in tasks : Free(t) BY DEF LoopBusy, Free
  <2>2. \A t \in tasks : t = r BY <1>2, <2>1, FreeIsAlone
  <2> QED BY <1>2, <2>2, OverDrops
<1>4. /\ r.target \in Pids /\ os[r.target] = "unborn" /\ r.target <= minted
      /\ \A p \in Pids : ~Alive(p)
  BY <1>2 DEF IInv, Sequential, Minted
<1>5. TypeParts' BY <1>1, <1>3, <1>4, BackoffAssumption DEF TypeParts, None
<1>6. Spacing' /\ Asks' /\ Records'
  BY <1>3 DEF IInv, Spacing, Asks, AskedOnce, AskedTwice, OrphansAreLast, Records, Ids, OneRelaunch,
              EntryIsFree, CancelledIsAwaited
<1>7. Members' /\ Minted'
  <2>1. \A p \in Pids : p # r.target => os'[p] = os[p] BY <1>1 DEF TypeParts
  <2>2. connected # None => connected # r.target BY <1>4 DEF IInv, Members
  <2>3. Members' BY <1>1, <1>4, <2>1, <2>2 DEF IInv, Members, TypeParts
  <2>4. os'[r.target] = "up" BY <1>1, <1>4 DEF TypeParts
  <2> QED BY <1>3, <1>4, <2>1, <2>3, <2>4 DEF IInv, Minted
<1>8. Sequential'
  <2>1. \A p \in Pids : Alive(p)' => p = r.target BY <1>1, <1>4 DEF Alive, TypeParts
  <2> QED BY <1>3, <2>1 DEF Sequential
<1>9. Phases' BY <1>3, <1>4 DEF IInv, Phases
<1>10. EndsForGood' BY <1>2, <1>3 DEF IInv, EndsForGood
<1>11. ReportedFirst' BY <1>3 DEF ReportedFirst
<1>12. ReachedOrReplaced' BY <1>4 DEF ReachedOrReplaced, IInv, Members
<1>13. Supervised' BY <1>1, <1>4 DEF Supervised, TypeParts
<1> QED BY SameTypes, <1>5, <1>6, <1>7, <1>8, <1>9, <1>10, <1>11, <1>12, <1>13 DEF IInv

\* It is not.
LEMMA RelaunchFailsHolds ==
  ASSUME IInv, NEW r \in tasks, RelaunchFails(r)
  PROVE  IInv'
<1> USE DEF RelaunchFails, busVars
<1>1. TypeParts BY SameTypes DEF IInv
<1>2. Free(r) /\ r.at = "spawning" /\ Over(r) BY DEF Free
<1>3. tasks' = tasks \ {r} /\ entry' = None /\ slipped' = slipped /\ \A t \in tasks' : ~Free(t)
  BY <1>2, OverDrops
<1>4. events' \in 0 .. MaxEvents BY EventsType DEF IInv
<1>5. TypeParts' BY <1>1, <1>3, <1>4 DEF TypeParts, None, osVars, roleVars
<1>6. \A p \in Pids : ~Alive(p) BY <1>2 DEF IInv, Sequential
<1>7. Supervised' BY DEF Supervised
<1>8. ReachedOrReplaced' BY <1>1, <1>6 DEF ReachedOrReplaced, Alive, TypeParts, osVars, roleVars
<1> QED BY <1>3, <1>5, <1>7, <1>8, FewerHolds

\* A relaunch that was cancelled is over. Its finally may drop the entry of one
\* that was asked for in the meantime: that one is not recorded any more.
LEMMA RelaunchCancelledHolds ==
  ASSUME IInv, NEW r \in tasks, RelaunchCancelled(r)
  PROVE  IInv'
<1> USE DEF RelaunchCancelled, busVars
<1>1. TypeParts BY SameTypes DEF IInv
<1>2. ~Free(r) /\ tasks' = tasks \ {r} BY DEF Over, Free
<1>3. entry' \in {None, entry} /\ slipped' \in BOOLEAN BY <1>1 DEF Over, TypeParts
<1>4. TypeParts' BY <1>1, <1>2, <1>3 DEF TypeParts, None, osVars, roleVars
<1>5. Stopping
  <2>1. server.at = "cancelling" /\ server \in Servers
    BY <1>1 DEF IInv, Records, CancelledIsAwaited, TypeParts
  <2> QED BY <2>1 DEF IInv, Phases, Stopping, Servers
<1>6. entry # None => \E t \in tasks' : Listed(t) /\ Free(t)
  BY <1>2 DEF IInv, Records, EntryIsFree
<1>7. ASSUME NEW t \in tasks', Free(t)
      PROVE  /\ Listed(t)' \/ (process # None => ~Watched /\ ~CanAsk)
             /\ ~slipped' => ~slipped /\ Listed(t)'
  <2>1. t \in tasks /\ t # r BY <1>2
  <2>2. process # None => ~Watched /\ ~CanAsk BY <2>1 DEF IInv, Asks, AskedTwice
  <2>3. ASSUME ~slipped' PROVE ~slipped /\ Listed(t)'
    <3>1. CASE UNCHANGED <<entry, slipped>> BY <1>7, <2>1, <2>3, <3>1 DEF IInv, EndsForGood, Listed
    <3>2. CASE Over(r)
      <4>1. ~slipped /\ entry \in {None, r.id} BY <2>3, <3>2 DEF Over
      <4>2. t.id = entry BY <1>7, <2>1, <4>1 DEF IInv, EndsForGood, Listed
      <4>3. t.id # r.id /\ t.id # None
        BY <2>1, <1>1 DEF IInv, Records, Ids, TypeParts, None
      <4> QED BY <4>1, <4>2, <4>3
    <3> QED BY <3>1, <3>2
  <2> QED BY <2>2, <2>3
<1>8. ~slipped' => ~slipped BY DEF Over
<1> QED BY <1>2, <1>3, <1>4, <1>5, <1>6, <1>7, <1>8, FewerHolds

-----------------------------------------------------------------------------
(* The stop of the role. *)

\* It has no relaunch: what is left of one is not recorded.
LEMMA StopPopsHolds ==
  ASSUME IInv, StopRole, entry = None
  PROVE  IInv'
<1> USE PidsAreNat DEF IInv, PopsProcess, osVars, roleVars, busVars, history
<1>1. TypeParts BY SameTypes
<1> USE <1>1 DEF TypeParts
<1>2. /\ server.at = "stopping" /\ PopsProcess
      /\ UNCHANGED <<entry, tasks, watch, launched, busVars, history>>
  BY DEF StopRole
<1> USE <1>2
<1>3. TypeParts'
  <2>1. process \in Nat BY DEF None
  <2>2. server' = [server EXCEPT !.at = "ending", !.awaits = process] OBVIOUS
  <2>3. server' \in Servers
    <3>1. "ending" \in ServerSteps /\ 1 \in 0 .. 2 BY DEF ServerSteps
    <3> QED BY ONLY <1>1, <2>1, <2>2, <3>1, ServerTyped DEF TypeParts
  <2> QED BY <2>3
<1>4. Spacing' /\ Records' /\ Members' /\ Minted'
  BY DEF Spacing, Records, Ids, OneRelaunch, EntryIsFree, CancelledIsAwaited, Members, Minted,
         Free, Listed, Servers
<1>5. Asks'
  BY DEF Asks, AskedOnce, AskedTwice, OrphansAreLast, Free, Listed, Watched, CanAsk, Servers
<1>6. Sequential' /\ Phases' BY DEF Sequential, Phases, Alive, Free, Listed, Servers
<1>7. EndsForGood'
  <2>1. \A t \in tasks : ~Listed(t) BY DEF Records, Ids, Listed, None
  <2>2. \A t : (Free(t)' <=> Free(t)) /\ (Listed(t)' <=> Listed(t)) BY DEF Free, Listed
  <2> QED BY <2>1, <2>2 DEF EndsForGood
<1>8. ReportedFirst' /\ ReachedOrReplaced' /\ Supervised'
  BY DEF ReportedFirst, ReachedOrReplaced, Supervised, Stopping, Phases, Free, Servers
<1> QED BY SameTypes, <1>3, <1>4, <1>5, <1>6, <1>7, <1>8

\* It has one, which is cancelled and awaited.
LEMMA StopCancelsHolds ==
  ASSUME IInv, StopRole, entry # None
  PROVE  IInv'
<1> USE PidsAreNat DEF IInv, osVars, roleVars, busVars, history
<1>1. TypeParts BY SameTypes
<1>2. /\ tasks' = {IF r.id = entry THEN [r EXCEPT !.cancelled = TRUE] ELSE r : r \in tasks}
      /\ entry' = None /\ server.at = "stopping"
      /\ server' = [server EXCEPT !.at = "cancelling", !.awaits = entry]
      /\ UNCHANGED <<os, watch, process, watcher, started, joined, backoff, launched, minted,
                     connected, calling, pid, failed, slipped, blamed, events>>
  BY DEF StopRole
<1>3. \A s \in tasks' : \E r \in tasks :
         /\ s = IF r.id = entry THEN [r EXCEPT !.cancelled = TRUE] ELSE r
         /\ s.id = r.id /\ s.at = r.at /\ s.target = r.target /\ s.delay = r.delay /\ s \in Relaunches
         /\ s.cancelled <=> r.cancelled \/ Listed(r)
  <2> DEFINE Marked(r) == IF r.id = entry THEN [r EXCEPT !.cancelled = TRUE] ELSE r
  <2>1. ASSUME NEW r \in tasks
        PROVE  /\ Marked(r).id = r.id /\ Marked(r).at = r.at /\ Marked(r).target = r.target
               /\ Marked(r).delay = r.delay /\ Marked(r) \in Relaunches
               /\ Marked(r).cancelled <=> r.cancelled \/ Listed(r)
    <3>1. r \in Relaunches BY <1>1 DEF TypeParts
    <3>2. CASE r.id = entry
      <4>1. Marked(r) = [r EXCEPT !.cancelled = TRUE] BY <3>2
      <4> HIDE DEF Marked
      <4> QED BY <3>1, <3>2, <4>1 DEF Relaunches, Listed
    <3>3. CASE r.id # entry BY <3>1, <3>3 DEF Listed
    <3> QED BY <3>2, <3>3
  <2>2. tasks' = {Marked(r) : r \in tasks} BY <1>2
  <2> QED BY <2>1, <2>2
<1>4. /\ server' \in Servers /\ server'.at = "cancelling" /\ server'.awaits = entry
      /\ server'.call = server.call
  <2>1. "cancelling" \in ServerSteps /\ entry \in Nat /\ server \in Servers
    BY <1>1 DEF TypeParts, ServerSteps
  <2> QED BY <1>2, <2>1 DEF Servers
<1>5. TypeParts' BY <1>1, <1>2, <1>3, <1>4 DEF TypeParts, None
<1>6. \A r \in tasks : ~r.cancelled BY <1>2 DEF Records, CancelledIsAwaited
<1>7. \A s \in tasks' : Free(s) => \E r \in tasks : r = s /\ Free(r) /\ ~Listed(r)
  BY <1>3, <1>6 DEF Free, Listed
<1>8. \A s : Free(s)' <=> Free(s) BY DEF Free
<1>9. Spacing' BY <1>2, <1>3 DEF Spacing
<1>10. Asks'
  <2>1. (Watched' <=> Watched) /\ (CanAsk' <=> CanAsk) BY <1>2 DEF Watched, CanAsk
  <2>2. AskedOnce' BY <1>2, <1>3, <2>1 DEF Asks, AskedOnce
  <2>3. AskedTwice'
    <3>1. SUFFICES ASSUME NEW s \in tasks', NEW t \in tasks', s # t, process' # None
                   PROVE  ~Watched' /\ ~CanAsk'
      BY DEF AskedTwice
    <3>2. \E q, r \in tasks : q # r BY <1>3, <3>1
    <3> QED BY <1>2, <2>1, <3>1, <3>2 DEF Asks, AskedTwice
  <2>4. OrphansAreLast' BY <1>2, <1>7, <1>8, <2>1 DEF Asks, OrphansAreLast
  <2> QED BY <2>2, <2>3, <2>4 DEF Asks
<1>11. Records'
  <2>1. Ids'
    <3>1. ASSUME NEW s \in tasks', NEW t \in tasks', s.id = t.id PROVE s = t
      <4>1. PICK q \in tasks : s.id = q.id /\ s = IF q.id = entry THEN [q EXCEPT !.cancelled = TRUE] ELSE q
        BY <1>3
      <4>2. PICK r \in tasks : t.id = r.id /\ t = IF r.id = entry THEN [r EXCEPT !.cancelled = TRUE] ELSE r
        BY <1>3
      <4>3. q = r BY <3>1, <4>1, <4>2 DEF Records, Ids
      <4> QED BY <4>1, <4>2, <4>3
    <3>2. \A s \in tasks' : s.id \in 1 .. launched' BY <1>2, <1>3 DEF Records, Ids
    <3> QED BY <3>1, <3>2 DEF Ids
  <2>2. OneRelaunch' BY <1>3 DEF Records, OneRelaunch
  <2>3. EntryIsFree' BY <1>2 DEF EntryIsFree
  <2>4. CancelledIsAwaited' BY <1>3, <1>4, <1>6 DEF CancelledIsAwaited, Listed
  <2> QED BY <2>1, <2>2, <2>3, <2>4 DEF Records
<1>12. Members' BY <1>2 DEF Members
<1>13. Minted' BY <1>2, <1>7, <1>8 DEF Minted
<1>14. Sequential'
  <2>1. \A p : Alive(p)' <=> Alive(p) BY <1>2 DEF Alive
  <2> QED BY <1>2, <1>4, <1>7, <1>8, <2>1 DEF Sequential
<1>15. Phases' BY <1>2, <1>4 DEF Phases
<1>16. EndsForGood' BY <1>2, <1>4, <1>7, <1>8 DEF EndsForGood
<1>17. ReportedFirst' BY <1>2, <1>7, <1>8 DEF ReportedFirst
<1>18. ReachedOrReplaced' /\ Supervised'
  <2>1. Stopping' BY <1>1, <1>2, <1>4 DEF Stopping, Phases, TypeParts, Servers
  <2> QED BY <1>4, <2>1 DEF ReachedOrReplaced, Supervised
<1> QED BY SameTypes, <1>5, <1>9, <1>10, <1>11, <1>12, <1>13, <1>14, <1>15, <1>16, <1>17, <1>18

-----------------------------------------------------------------------------
(* The theorems. *)

\* A server that comes up has no process yet.
LEMMA InitHolds ==
  ASSUME Init
  PROVE  IInv
<1> USE PidsAreNat DEF Init
<1>1. TypeParts
  <2>1. server \in Servers BY DEF Servers, ServerSteps, None
  <2>2. minted \in 0 .. MaxPids /\ minted \in Pids BY BoundsAssumption DEF Pids
  <2>3. /\ started \in 0 .. Ceiling /\ backoff \in 0 .. Ceiling /\ events \in 0 .. MaxEvents
        /\ entry \in Nat /\ launched \in Nat
    BY BackoffAssumption, BoundsAssumption DEF None
  <2>4. os \in [Pids -> {"unborn", "up", "ending", "dead"}] /\ watch \in [Pids -> {"none", "waiting", "over"}]
    OBVIOUS
  <2>5. tasks \in SUBSET Relaunches /\ blamed \in SUBSET Pids OBVIOUS
  <2> QED BY <2>1, <2>2, <2>3, <2>4, <2>5 DEF TypeParts
<1>2. minted \in Pids BY BoundsAssumption DEF Pids
<1>3. Spacing /\ Asks /\ Records /\ Members /\ Minted
  BY <1>2 DEF Spacing, Asks, AskedOnce, AskedTwice, OrphansAreLast, Records, Ids, OneRelaunch,
              EntryIsFree, CancelledIsAwaited, Members, Minted
<1>4. Sequential /\ Phases /\ EndsForGood /\ ReportedFirst /\ ReachedOrReplaced /\ Supervised
  BY <1>2 DEF Sequential, Alive, Phases, EndsForGood, ReportedFirst, ReachedOrReplaced, Supervised
<1> QED BY SameTypes, <1>1, <1>3, <1>4 DEF IInv

\* A step that changes nothing.
LEMMA StutterHolds ==
  ASSUME IInv, UNCHANGED vars
  PROVE  IInv'
<1> USE DEF IInv, vars
<1>1. TypeParts' BY SameTypes DEF TypeParts
<1>2. \A t : (Free(t)' <=> Free(t)) /\ (Listed(t)' <=> Listed(t)) BY DEF Free, Listed
<1>3. (Watched' <=> Watched) /\ (CanAsk' <=> CanAsk) BY DEF Watched, CanAsk
<1>4. \A p : Alive(p)' <=> Alive(p) BY DEF Alive
<1>5. Spacing' /\ Asks' /\ Members' /\ Minted'
  BY <1>2, <1>3 DEF Spacing, Asks, AskedOnce, AskedTwice, OrphansAreLast, Members, Minted
<1>6. Records' BY <1>2 DEF Records, Ids, OneRelaunch, EntryIsFree, CancelledIsAwaited
<1>7. Sequential' /\ Phases' /\ EndsForGood' BY <1>2, <1>4 DEF Sequential, Phases, EndsForGood
<1>8. ReportedFirst' /\ ReachedOrReplaced' /\ Supervised'
  BY <1>2 DEF ReportedFirst, ReachedOrReplaced, Supervised, Stopping
<1> QED BY SameTypes, <1>1, <1>5, <1>6, <1>7, <1>8

\* Every step preserves the invariant.
LEMMA StepHolds ==
  ASSUME IInv, [Next]_vars
  PROVE  IInv'
<1>1. CASE Clock BY <1>1, ClockHolds
<1>2. CASE \E p \in Pids : Exits(p) \/ WatchEnds(p) \/ Connects(p)
  BY <1>2, ExitsHolds, WatchEndsHolds, ConnectsHolds
<1>3. CASE Joins \/ JoinRefused \/ MemberLost \/ ForgetFails
  BY <1>3, JoinsHolds, JoinRefusedHolds, MemberLostHolds, ForgetFailsHolds
<1>4. CASE \E r \in tasks : RelaunchStep(r) \/ RelaunchFails(r)
  BY <1>4, RelaunchStartsHolds, RelaunchEndedHolds, RelaunchWakesHolds, RelaunchSpawnedHolds,
     RelaunchCancelledHolds, RelaunchFailsHolds DEF RelaunchStep
<1>5. CASE StartEnsured \/ StopBegins BY <1>5, StartEnsuredHolds, StopBeginsHolds
<1>6. CASE StopStep
  BY <1>6, StopPopsHolds, StopCancelsHolds, StopCancelledHolds, StopEndedHolds, StopClosesHolds,
     StopAgainHolds DEF StopStep
<1>7. CASE UNCHANGED vars BY <1>7, StutterHolds
<1> QED BY <1>1, <1>2, <1>3, <1>4, <1>5, <1>6, <1>7 DEF Next

\* The invariant holds in every state that is reached.
LEMMA Invariant == Spec => []IInv
<1> QED BY InitHolds, StepHolds, PTL DEF Spec

\* A role has one process and one relaunch that is not cancelled; a process
\* that joined is known by its pid, and one that is there is watched, or the
\* role is being relaunched (ensure, _relaunch and _watch of spawner.py).
THEOREM RoleHasOneLife == Spec => []OneLife
<1>1. ASSUME IInv PROVE OneLife
  <2>1. OneProcess
    <3>1. ASSUME NEW p \in Pids, NEW q \in Pids, Alive(p), Alive(q) PROVE p = q
      BY <1>1, <3>1, PidsAreNat DEF IInv, Sequential
    <3> QED BY <3>1 DEF OneProcess
  <2> QED BY <1>1, <2>1 DEF OneLife, IInv, Records
<1> QED BY Invariant, <1>1, PTL

\* Nothing is left of a role after the second stop (stop of spawner.py), unless
\* the finally of a relaunch dropped the entry of another.
THEOREM NothingIsLeft == Spec => []StopLeavesNothing
<1>1. ASSUME IInv PROVE StopLeavesNothing
  <2> SUFFICES ASSUME server.at = "done", ~slipped
               PROVE  (\A p \in Pids : ~Alive(p)) /\ (\A r \in tasks : r.at # "spawning")
    BY DEF StopLeavesNothing
  <2>1. server.call = 2 /\ process = None /\ \A r \in tasks : Free(r) => r.at # "spawning"
    BY <1>1 DEF IInv, Phases, EndsForGood
  <2>2. \A r \in tasks : Free(r) BY <1>1 DEF IInv, Records, CancelledIsAwaited, Free
  <2>3. \A p \in Pids : ~Alive(p)
    BY <1>1, <2>1, PidsAreNat DEF IInv, Sequential
  <2> QED BY <2>1, <2>2, <2>3
<1> QED BY Invariant, <1>1, PTL

\* A relaunch ends a process that runs only if it was reported lost or deaf to
\* a forget, and mints the next no sooner than the interval after the last
\* start (_relaunch of spawner.py).
THEOREM RelaunchesAreFair == Spec => RelaunchIsFair
<1>1. ASSUME IInv, Next
      PROVE  /\ \A r \in tasks : RelaunchStarts(r) =>
                  \A p \in Pids : os[p] = "up" /\ os'[p] = "ending" => p \in blamed
             /\ \A r \in tasks : RelaunchWakes(r) /\ minted' # minted => started >= Interval
  <2>1. TypeParts BY <1>1, SameTypes DEF IInv
  <2>2. ASSUME NEW r \in tasks, RelaunchStarts(r), NEW p \in Pids, os[p] = "up", os'[p] = "ending"
        PROVE  p \in blamed
    <3>1. os' # os /\ Free(r) /\ r.at = "created" BY <2>2 DEF RelaunchStarts, Free
    <3>2. process # None /\ os' = [os EXCEPT ![process] = "ending"]
      BY <2>2, <3>1 DEF RelaunchStarts
    <3>3. p = process BY <2>1, <2>2, <3>2 DEF TypeParts
    <3> QED BY <1>1, <2>2, <3>1, <3>2, <3>3 DEF IInv, ReportedFirst
  <2>3. ASSUME NEW r \in tasks, RelaunchWakes(r) PROVE started >= Interval
    <3>1. ~r.cancelled /\ r.at = "sleeping" /\ r.delay = 0 BY <2>3 DEF RelaunchWakes
    <3>2. started \in 0 .. Ceiling /\ started + r.delay >= Interval
      BY <1>1, <2>1, <3>1 DEF IInv, Spacing, TypeParts
    <3> QED BY <3>1, <3>2, BackoffAssumption
  <2> QED BY <2>2, <2>3
<1>2. IInv /\ [Next]_vars =>
        /\ [\A r \in tasks : RelaunchStarts(r) =>
             \A p \in Pids : os[p] = "up" /\ os'[p] = "ending" => p \in blamed]_vars
        /\ [\A r \in tasks : RelaunchWakes(r) /\ minted' # minted => started >= Interval]_vars
  BY <1>1
<1> QED BY Invariant, <1>2, PTL DEF Spec, RelaunchIsFair, OnlyBlamedAreEnded, StartsAreSpaced
=============================================================================
