-------------------------- MODULE ProcessSupervisor --------------------------
(***************************************************************************)
(* One external application: the process that hosts it, the spawner that   *)
(* starts, watches and relaunches that process (spawner.py), and the       *)
(* server that knows it as a member of its dispatcher (kbus_mixin.py).     *)
(* Roles share nothing but the order in which they are stopped, so one     *)
(* role is the model.                                                      *)
(*                                                                         *)
(* Everything here runs on one event loop: an action is what a coroutine   *)
(* does between two awaits, and any ready coroutine may be the next. The   *)
(* process itself, its exit and its connection go their own way.           *)
(***************************************************************************)
EXTENDS Integers

CONSTANTS
  Interval,    \* RELAUNCH_INTERVAL
  Ceiling,     \* RELAUNCH_CEILING
  Reset,       \* RELAUNCH_RESET
  MaxEvents,   \* bound: exits, lost connections, forgets not confirmed, failed spawns
  MaxPids      \* bound: processes ever started; more than MaxEvents allow

ASSUME BackoffAssumption ==
  Interval \in Nat \ {0} /\ Ceiling \in Nat /\ Interval <= Ceiling /\ Reset \in Nat
ASSUME BoundsAssumption ==
  MaxEvents \in Nat /\ MaxPids \in Nat /\ MaxPids > 0

VARIABLES
  os,         \* os[p]: process p as the system has it; ending: told to, or alone
  watch,      \* watch[p]: the _watch task of process p
  process,    \* spawner.processes[role], or None
  watcher,    \* spawner.watchers[role]: the process it watches, or None
  started,    \* time since spawner.started_at[role], as far as Ceiling
  joined,     \* time since spawner.joined_at[role], as far as Reset, or Never
  backoff,    \* spawner.backoff[role], or None
  entry,      \* spawner.relaunches[role]: a task, or None
  tasks,      \* the _relaunch tasks not over: [id, at, target, delay, cancelled]
  launched,   \* how many relaunches were queued (history)
  minted,     \* how many URLs were minted; process p holds the p-th
  connected,  \* the process whose member is connected to the dispatcher, or None
  calling,    \* its call of server.joined is not served yet
  pid,        \* kbus_pids[code], or None
  server,     \* the coroutine _serve_with_children: [at, call, awaits]
  failed,     \* a relaunch ended in a spawn that failed (history)
  slipped,    \* a relaunch dropped the entry of another one (history)
  blamed,     \* processes reported lost or deaf to a forget (history)
  events      \* how many events there have been

osVars    == <<os, watch>>
roleVars  == <<process, watcher, started, joined, backoff>>
taskVars  == <<entry, tasks, launched>>
busVars   == <<minted, connected, calling, pid>>
history   == <<failed, slipped, blamed, events>>
vars == <<os, watch, process, watcher, started, joined, backoff, entry, tasks,
          launched, minted, connected, calling, pid, server, failed, slipped, blamed, events>>

None  == 0
Never == -1
Pids == 1 .. MaxPids

\* The server comes up, runs, and then calls _stop_children twice: before the
\* answer to lifespan.shutdown and in the finally.
ServerSteps == {"ensuring", "up", "stopping", "cancelling", "ending", "closing",
                "closed", "done"}

TaskSteps == {"created", "ending", "sleeping", "spawning"}

TypeOK ==
  /\ os \in [Pids -> {"unborn", "up", "ending", "dead"}]
  /\ watch \in [Pids -> {"none", "waiting", "over"}]
  /\ process \in Pids \cup {None} /\ watcher \in Pids \cup {None}
  /\ started \in 0 .. Ceiling /\ joined \in {Never} \cup 0 .. Reset
  /\ backoff \in 0 .. Ceiling
  /\ entry \in Nat /\ launched \in Nat
  /\ tasks \in SUBSET [id : Nat, at : TaskSteps, target : Pids \cup {None},
                       delay : 0 .. Ceiling, cancelled : BOOLEAN]
  /\ minted \in 0 .. MaxPids
  /\ connected \in Pids \cup {None} /\ calling \in BOOLEAN /\ pid \in Pids \cup {None}
  /\ server \in [at : ServerSteps, call : 0 .. 2, awaits : Nat]
  /\ failed \in BOOLEAN /\ slipped \in BOOLEAN /\ blamed \in SUBSET Pids
  /\ events \in 0 .. MaxEvents

Alive(p) == os[p] \in {"up", "ending"}

\* _kbus_stopping, and whether there is a dispatcher to mint a URL for.
Stopping      == server.call > 0
HasDispatcher == server.at \notin {"closed", "done"} /\ server.call < 2

Happens == events < MaxEvents /\ events' = events + 1

Init ==
  /\ os = [p \in Pids |-> "unborn"] /\ watch = [p \in Pids |-> "none"]
  /\ process = None /\ watcher = None
  /\ started = 0 /\ joined = Never /\ backoff = 0
  /\ entry = None /\ tasks = {} /\ launched = 0
  /\ minted = 1 /\ connected = None /\ calling = FALSE /\ pid = None
  /\ server = [at |-> "ensuring", call |-> 0, awaits |-> None]
  /\ failed = FALSE /\ slipped = FALSE /\ blamed = {} /\ events = 0

\* A coroutine that waits for nothing but its turn: asyncio's ready queue is
\* first in first out, so it has it before time passes or a spawn completes
\* (a spawn that is cancelled kills its process).
LoopBusy ==
  \/ \E p \in Pids : watch[p] = "waiting" /\ os[p] = "dead"
  \/ \E r \in tasks : r.at = "created" \/ r.cancelled
  \/ server.at = "cancelling" /\ \A r \in tasks : r.id # server.awaits

Least(a, b)    == IF a < b THEN a ELSE b
Greatest(a, b) == IF a < b THEN b ELSE a

Clock ==
  /\ ~LoopBusy
  /\ started' = Least(started + 1, Ceiling)
  /\ joined' = IF joined = Never THEN Never ELSE Least(joined + 1, Reset)
  /\ tasks' = {[r EXCEPT !.delay = Greatest(r.delay - 1, 0)] : r \in tasks}
  /\ UNCHANGED <<osVars, process, watcher, backoff, entry, launched, busVars, server, history>>

\* ensure, past its create_subprocess_exec: process p is there and watched.
Born(p) ==
  /\ os' = [os EXCEPT ![p] = "up"]
  /\ watch' = [watch EXCEPT ![p] = "waiting"]
  /\ process' = p /\ watcher' = p
  /\ started' = 0 /\ joined' = Never

-----------------------------------------------------------------------------
(* relaunch(role, pid): ignored for a role that is not there, one that is  *)
(* being relaunched, and a process already replaced.                       *)

\* Wrong: a relaunch under way does not matter.
AsksTwice(p) ==
  IF process = None \/ (p # None /\ process # p)
  THEN UNCHANGED taskVars
  ELSE /\ launched' = launched + 1 /\ entry' = launched + 1
       /\ tasks' = tasks \cup {[id |-> launched + 1, at |-> "created", target |-> None,
                                delay |-> 0, cancelled |-> FALSE]}

\* Wrong: the pid that was lost does not matter.
AsksWhateverPid(p) ==
  IF process = None \/ entry # None
  THEN UNCHANGED taskVars
  ELSE /\ launched' = launched + 1 /\ entry' = launched + 1
       /\ tasks' = tasks \cup {[id |-> launched + 1, at |-> "created", target |-> None,
                                delay |-> 0, cancelled |-> FALSE]}

AskRelaunch(p) ==
  IF process = None \/ entry # None \/ (p # None /\ process # p)
  THEN UNCHANGED taskVars
  ELSE /\ launched' = launched + 1 /\ entry' = launched + 1
       /\ tasks' = tasks \cup {[id |-> launched + 1, at |-> "created", target |-> None,
                                delay |-> 0, cancelled |-> FALSE]}

\* The process ends: by itself, or because it was terminated (or killed).
Exits(p) ==
  /\ \/ os[p] = "up" /\ Happens
     \/ os[p] = "ending" /\ UNCHANGED events
  /\ os' = [os EXCEPT ![p] = "dead"]
  /\ UNCHANGED <<watch, roleVars, taskVars, busVars, server, failed, slipped, blamed>>

\* _watch: an end that nobody asked for is handed to _relaunch_role.
WatchEnds(p) ==
  /\ watch[p] = "waiting" /\ os[p] = "dead"
  /\ watch' = [watch EXCEPT ![p] = "over"]
  /\ IF process = p /\ entry = None
     THEN pid' = None /\ AskRelaunch(None)
     ELSE UNCHANGED <<pid, taskVars>>
  /\ UNCHANGED <<os, roleVars, minted, connected, calling, server, history>>

\* The member of the process connects with the URL it holds; only the last one
\* minted admits. It connects once: the loss of that connection ends it.
Connects(p) ==
  /\ os[p] = "up" /\ p = minted /\ joined = Never
  /\ connected = None /\ HasDispatcher
  /\ connected' = p /\ calling' = TRUE
  /\ UNCHANGED <<osVars, roleVars, taskVars, minted, pid, server, history>>

\* _external_joined: its call is served, whatever became of it in the meantime.
Joins ==
  /\ calling /\ calling' = FALSE
  /\ joined' = 0 /\ pid' = connected
  /\ UNCHANGED <<osVars, process, watcher, started, backoff, taskVars, minted,
                 connected, server, history>>

\* _external_joined refuses the well-known paths it presents: the role raises
\* on that answer and ends its process.
JoinRefused ==
  /\ calling /\ calling' = FALSE /\ Happens
  /\ os' = IF os[connected] = "up" THEN [os EXCEPT ![connected] = "ending"] ELSE os
  /\ UNCHANGED <<watch, roleVars, taskVars, minted, connected, pid, server,
                 failed, slipped, blamed>>

\* _member_lost: a connection ends, with its process or before it. The loop
\* may read that late, when another process has taken its place; what the
\* member called before is served first.
MemberLost ==
  /\ connected # None /\ ~calling
  /\ IF Alive(connected) THEN Happens ELSE UNCHANGED events
  /\ os' = IF Alive(connected) THEN [os EXCEPT ![connected] = "ending"] ELSE os
  /\ blamed' = blamed \cup {connected}
  /\ connected' = None /\ pid' = None
  /\ IF pid # None /\ ~Stopping THEN AskRelaunch(pid) ELSE UNCHANGED taskVars
  /\ UNCHANGED <<watch, roleVars, minted, calling, server, failed, slipped>>

\* forget_in: the member does not confirm; its process is to be replaced.
ForgetFails ==
  /\ pid # None /\ Happens
  /\ blamed' = blamed \cup {pid}
  /\ pid' = None
  /\ AskRelaunch(pid)
  /\ UNCHANGED <<osVars, roleVars, minted, connected, calling, server, failed, slipped>>

-----------------------------------------------------------------------------
(* _relaunch, one task r of it.                                            *)

Becomes(r, s) == tasks' = (tasks \ {r}) \cup {s}

\* Wrong: nobody drops the entry.
OverKeepsEntry(r) ==
  /\ tasks' = tasks \ {r}
  /\ UNCHANGED <<entry, slipped>>

\* The task is over; its finally drops whatever entry the role has.
Over(r) ==
  /\ tasks' = tasks \ {r}
  /\ entry' = None
  /\ slipped' = (slipped \/ entry \notin {None, r.id})

\* The backoff, and the sleep until that long after the previous start.
BacksOff(r) ==
  LET stayed  == joined = Reset
      current == IF stayed \/ backoff = 0 THEN Interval ELSE backoff
  IN  /\ backoff' = Least(2 * current, Ceiling)
      /\ Becomes(r, [r EXCEPT !.at = "sleeping", !.delay = Greatest(current - started, 0)])
      /\ UNCHANGED <<entry, slipped>>

\* The first step ends the process the role has now; a process that has
\* ended is not waited for, a role that was stopped is a KeyError.
RelaunchStarts(r) ==
  /\ r.at = "created" /\ ~r.cancelled
  /\ IF process = None THEN Over(r) /\ UNCHANGED <<os, backoff>>
     ELSE IF os[process] = "dead" THEN BacksOff(r) /\ UNCHANGED os
     ELSE /\ os' = [os EXCEPT ![process] = "ending"]
          /\ Becomes(r, [r EXCEPT !.at = "ending", !.target = process])
          /\ UNCHANGED <<entry, slipped, backoff>>
  /\ UNCHANGED <<watch, process, watcher, started, joined, launched, busVars, server,
                 failed, blamed, events>>

RelaunchEnded(r) ==
  /\ r.at = "ending" /\ ~r.cancelled /\ os[r.target] = "dead"
  /\ BacksOff(r)
  /\ UNCHANGED <<osVars, process, watcher, started, joined, launched, busVars, server,
                 failed, blamed, events>>

\* The new URL is minted (which raises without a dispatcher), then ensure.
RelaunchWakes(r) ==
  /\ r.at = "sleeping" /\ ~r.cancelled /\ r.delay = 0
  /\ IF ~HasDispatcher THEN Over(r) /\ UNCHANGED minted
     ELSE /\ minted < MaxPids /\ minted' = minted + 1
          /\ IF process # None /\ Alive(process) THEN Over(r)
             ELSE /\ Becomes(r, [r EXCEPT !.at = "spawning", !.target = minted + 1])
                  /\ UNCHANGED <<entry, slipped>>
  /\ UNCHANGED <<osVars, roleVars, launched, connected, calling, pid, server, failed, blamed,
                 events>>

RelaunchSpawned(r) ==
  /\ r.at = "spawning" /\ ~r.cancelled /\ ~LoopBusy
  /\ Born(r.target) /\ Over(r)
  /\ UNCHANGED <<backoff, launched, busVars, server, failed, blamed, events>>

\* create_subprocess_exec raises: the task ends, and with it the relaunch.
RelaunchFails(r) ==
  /\ r.at = "spawning" /\ ~r.cancelled /\ ~LoopBusy /\ Happens
  /\ Over(r) /\ failed' = TRUE
  /\ UNCHANGED <<osVars, roleVars, launched, busVars, server, blamed>>

\* A task cancelled before its first step never entered the try.
RelaunchCancelled(r) ==
  /\ r.cancelled
  /\ IF r.at = "created" THEN tasks' = tasks \ {r} /\ UNCHANGED <<entry, slipped>>
     ELSE Over(r)
  /\ UNCHANGED <<osVars, roleVars, launched, busVars, server, failed, blamed, events>>

-----------------------------------------------------------------------------
(* The server: ensure at startup, _stop_children at the end, twice.        *)

StartEnsured ==
  /\ server.at = "ensuring"
  /\ Born(minted)
  /\ server' = [server EXCEPT !.at = "up"]
  /\ UNCHANGED <<backoff, taskVars, busVars, history>>

\* The startup fails, or the server is told to shut down.
StopBegins ==
  /\ server.at \in {"ensuring", "up"}
  /\ server' = [server EXCEPT !.at = "stopping", !.call = 1]
  /\ UNCHANGED <<osVars, roleVars, taskVars, busVars, history>>

\* stop(role), past its relaunch: the process is forgotten and ended.
PopsProcess ==
  /\ process' = None
  /\ os' = IF process # None /\ os[process] = "up" THEN [os EXCEPT ![process] = "ending"]
           ELSE os
  /\ server' = [server EXCEPT !.at = "ending", !.awaits = process]
  /\ UNCHANGED <<watcher, started, joined, backoff>>

\* Wrong: a pending relaunch is left alone.
StopsProcessOnly ==
  /\ server.at = "stopping"
  /\ PopsProcess
  /\ UNCHANGED <<watch, entry, tasks, launched, busVars, history>>

\* stop(role): its pending relaunch is forgotten, cancelled and awaited.
StopRole ==
  /\ server.at = "stopping"
  /\ IF entry = None
     THEN PopsProcess /\ UNCHANGED <<entry, tasks>>
     ELSE /\ tasks' = {IF r.id = entry THEN [r EXCEPT !.cancelled = TRUE] ELSE r : r \in tasks}
          /\ entry' = None
          /\ server' = [server EXCEPT !.at = "cancelling", !.awaits = entry]
          /\ UNCHANGED <<os, roleVars>>
  /\ UNCHANGED <<watch, launched, busVars, history>>

StopCancelled ==
  /\ server.at = "cancelling"
  /\ \A r \in tasks : r.id # server.awaits
  /\ PopsProcess
  /\ UNCHANGED <<watch, taskVars, busVars, history>>

\* The process has ended: its watcher is cancelled, other roles are next.
StopEnded ==
  /\ server.at = "ending"
  /\ server.awaits # None => os[server.awaits] = "dead"
  /\ watch' = IF watcher = None THEN watch ELSE [watch EXCEPT ![watcher] = "over"]
  /\ watcher' = None
  /\ server' = [server EXCEPT !.at = "closing", !.awaits = None]
  /\ UNCHANGED <<os, process, started, joined, backoff, taskVars, busVars, history>>

\* Every role is stopped: the pids are cleared and the dispatcher is dropped.
StopCloses ==
  /\ server.at = "closing"
  /\ pid' = None /\ connected' = None /\ calling' = FALSE
  /\ server' = [server EXCEPT !.at = IF server.call = 1 THEN "closed" ELSE "done"]
  /\ UNCHANGED <<osVars, roleVars, taskVars, minted, history>>

StopAgain ==
  /\ server.at = "closed"
  /\ server' = [server EXCEPT !.at = "stopping", !.call = 2]
  /\ UNCHANGED <<osVars, roleVars, taskVars, busVars, history>>

-----------------------------------------------------------------------------

RelaunchStep(r) ==
  \/ RelaunchStarts(r) \/ RelaunchEnded(r) \/ RelaunchWakes(r) \/ RelaunchSpawned(r)
  \/ RelaunchCancelled(r)

StopStep == StopRole \/ StopCancelled \/ StopEnded \/ StopCloses \/ StopAgain

Next ==
  \/ Clock
  \/ \E p \in Pids : Exits(p) \/ WatchEnds(p) \/ Connects(p)
  \/ Joins \/ JoinRefused \/ MemberLost \/ ForgetFails
  \/ \E r \in tasks : RelaunchStep(r) \/ RelaunchFails(r)
  \/ StartEnsured \/ StopBegins \/ StopStep

\* Time passes, a process that was terminated ends (it is killed past the
\* shutdown timeout), and the loop runs what is ready.
Fairness ==
  /\ WF_vars(Clock)
  /\ \A p \in Pids : WF_vars(Exits(p) /\ os[p] = "ending") /\ WF_vars(WatchEnds(p))
  /\ WF_vars(\E r \in tasks : RelaunchStep(r))
  /\ WF_vars(StartEnsured) /\ WF_vars(StopStep)

Spec == Init /\ [][Next]_vars /\ Fairness

-----------------------------------------------------------------------------
(* Properties.                                                             *)

\* _relaunch ends the previous process before it starts the next: the role is
\* never played by two processes at once, stop and cancellation included.
OneProcess == \A p, q \in Pids : Alive(p) /\ Alive(q) => p = q

\* "A relaunch is never queued twice for one role": of the relaunches of a role
\* one at most is not cancelled.
OneRelaunch == \A r, s \in tasks : ~r.cancelled /\ ~s.cancelled => r = s

\* "The processes are stopped and the dispatcher closed before
\* lifespan.shutdown.complete" (kbus_mixin.py:196): they are, once the first stop
\* is over.
StoppedBeforeComplete == server.at \in {"closed", "done"} => \A p \in Pids : ~Alive(p)

\* "a relaunch asked for a process already replaced is ignored": a relaunch
\* ends a running process only if it is the one that was reported.
OnlyBlamedAreEnded ==
  [][\A r \in tasks : RelaunchStarts(r) =>
       \A p \in Pids : os[p] = "up" /\ os'[p] = "ending" => p \in blamed]_vars

\* While the server runs, a process that joined and is still connected is known
\* by its pid, so that calls and revocations reach it, or is being replaced.
ReachedOrReplaced ==
  connected # None /\ connected = process /\ os[connected] = "up" /\ ~calling /\ ~Stopping =>
    pid = connected \/ \E r \in tasks : r.id = entry

\* While the server runs, somebody is there to bring the role back: the watcher
\* of its process, or a relaunch; unless a spawn has failed.
Supervised ==
  server.at = "up" =>
    \/ process # None /\ watch[process] = "waiting"
    \/ \E r \in tasks : r.id = entry
    \/ failed

\* A role has one process, which is reached, watched and replaced once: the
\* four statements together.
OneLife == TypeOK /\ OneProcess /\ OneRelaunch /\ ReachedOrReplaced /\ Supervised

\* "starts the new one at least the backoff after the previous start".
StartsAreSpaced ==
  [][\A r \in tasks : RelaunchWakes(r) /\ minted' # minted => started >= Interval]_vars

\* What a relaunch may not do: end a process nobody reported, or start one early.
RelaunchIsFair == OnlyBlamedAreEnded /\ StartsAreSpaced

\* Once both stops are over nothing is left of the role, and nothing comes
\* back, unless a relaunch slipped out of the record of them.
StopLeavesNothing ==
  server.at = "done" /\ ~slipped =>
    (\A p \in Pids : ~Alive(p)) /\ (\A r \in tasks : r.at # "spawning")

\* A process that ended is replaced while the server runs.
RoleComesBack ==
  \A p \in Pids :
    process = p /\ os[p] = "dead" ~> process # p \/ failed \/ Stopping

\* A server that is told to stop gets to the end of it.
StopEnds == Stopping ~> server.at = "done"

\* Both ends of the life of a role come.
RoleLives == RoleComesBack /\ StopEnds
=============================================================================
