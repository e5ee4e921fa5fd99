-------------------------- MODULE ServerLifecycle --------------------------
(***************************************************************************)
(* A server from its startup to the end of its shutdown, with the calls it *)
(* serves: http requests, WSX messages and batches, each registered in the *)
(* registry of requests for its span; the pool that runs what is           *)
(* synchronous; and the databases that a call takes and releases           *)
(* (server.py, lifespan.py, request_registry.py, pool.py,                  *)
(* routed_application.py, tasks/mixin.py, db.py).                          *)
(*                                                                         *)
(* Two kinds of steps interleave: those of the loop, which stop while the  *)
(* loop waits for the pool to end ("tearing"), and those of the pool's     *)
(* threads, which never stop.                                              *)
(***************************************************************************)
EXTENDS Naturals, Sequences, FiniteSets

CONSTANTS
  Calls,       \* what may be served, each once
  Origin,      \* where it comes from: "http", "message" (WSX) or "task"
  Synchronous, \* the calls with a synchronous handler
  Nests,       \* of those, the ones that hand a coroutine to run_on_loop
               \* which itself needs the pool
  Threads,     \* max_threads of the pool
  Databases,   \* the handlers of databases
  MaxCancels   \* how often a call may be cancelled

ASSUME FinitelyManyCalls == IsFiniteSet(Calls)
ASSUME OriginAssumption == Origin \in [Calls -> {"http", "message", "task"}]
ASSUME KindAssumption == Nests \subseteq Synchronous /\ Synchronous \subseteq Calls
ASSUME BoundAssumption == Threads \in Nat \ {0} /\ MaxCancels \in Nat

VARIABLES
  life,      \* where __call__ of the lifespan is
  leaving,   \* the state is not RUNNING
  polling,   \* the worker loop of the tasks runs
  open,      \* the database handlers that are open
  pc,        \* where the call is
  work,      \* the work it gave to the pool
  queue,     \* the queue of the pool's executor
  taken,     \* it holds databases
  cancelled, \* a cancellation waits for the end of the running work
  cancels,   \* the cancellations so far
  cut,       \* history: a cancellation came out of run_cleanups
  overdue    \* history: the calls that the drain gave up on

vars == <<life, leaving, polling, open, pc, work, queue, taken, cancelled, cancels, cut, overdue>>
lifeVars == <<life, leaving, polling, open>>
callVars == <<pc, work, queue, taken, cancelled, cancels, cut>>

\* What a call gives to the pool: its handler or what an async handler asks
\* of a database ("body"), what the coroutine of a nested call needs
\* ("inner"), and the release of its databases.
Jobs == {"body", "inner", "release"}
Status == {"none", "queued", "running", "parked", "done"}

Lives == {"opening", "hooks", "failing", "serving", "draining", "stopping", "closing",
          "tearing", "over", "stopped"}

\* Served and registered: a call in the registry's in-flight set.
InFlight == {"handler", "pooled", "releasing"}
Registered(c) == pc[c] \in InFlight

\* Threads that work: a thread blocked in run_on_loop is not free.
Busy == {w \in Calls \X Jobs : work[w] \in {"running", "parked"}}

\* pool.shutdown(wait=True) blocks the thread of the loop.
LoopRuns == life # "tearing"

Init ==
  /\ life = "opening"
  /\ leaving = FALSE
  /\ polling = TRUE
  /\ open = {}
  /\ pc = [c \in Calls |-> "new"]
  /\ work = [w \in Calls \X Jobs |-> "none"]
  /\ queue = <<>>
  /\ taken = [c \in Calls |-> FALSE]
  /\ cancelled = [c \in Calls |-> FALSE]
  /\ cancels = [c \in Calls |-> 0]
  /\ cut = [c \in Calls |-> FALSE]
  /\ overdue = {}

-----------------------------------------------------------------------------
(* The lifespan. *)

Opens(d) ==
  /\ life = "opening"
  /\ d \notin open
  /\ open' = open \cup {d}
  /\ UNCHANGED <<life, leaving, polling, callVars, overdue>>

RunsHooks ==
  /\ life = "opening"
  /\ open = Databases
  /\ life' = "hooks"
  /\ UNCHANGED <<leaving, polling, open, callVars, overdue>>

\* An open that raises, or a FatalBootError of a hook.
FatalBoot ==
  /\ life \in {"opening", "hooks"}
  /\ life' = "failing"
  /\ UNCHANGED <<leaving, polling, open, callVars, overdue>>

\* startup.complete: the ASGI server starts to serve.
Started ==
  /\ life = "hooks"
  /\ life' = "serving"
  /\ UNCHANGED <<leaving, polling, open, callVars, overdue>>

\* handle_exit, at any moment.
Signal ==
  /\ ~leaving
  /\ leaving' = TRUE
  /\ UNCHANGED <<life, polling, open, callVars, overdue>>

\* lifespan.shutdown arrives.
StartsLeaving ==
  /\ life = "serving"
  /\ life' = "draining"
  /\ leaving' = TRUE
  /\ UNCHANGED <<polling, open, callVars, overdue>>

Drained ==
  /\ life = "draining"
  /\ \A c \in Calls : ~Registered(c)
  /\ life' = "stopping"
  /\ UNCHANGED <<leaving, polling, open, callVars, overdue>>

\* As if the drain had no bound.
DrainsUnbounded ==
  /\ life = "draining"
  /\ FALSE
  /\ UNCHANGED vars

\* The bound of the drain passes with calls still in flight.
DrainTimesOut ==
  /\ life = "draining"
  /\ \E c \in Calls : Registered(c)
  /\ overdue' = {c \in Calls : Registered(c)}
  /\ life' = "stopping"
  /\ UNCHANGED <<leaving, polling, open, callVars>>

ShutdownHooksRun ==
  /\ life = "stopping"
  /\ life' = "closing"
  /\ UNCHANGED <<leaving, polling, open, callVars, overdue>>

Closes(d) ==
  /\ life \in {"failing", "closing"}
  /\ d \in open
  /\ open' = open \ {d}
  /\ UNCHANGED <<life, leaving, polling, callVars, overdue>>

\* The lifespan protocol returned: the pool is shut down. What is queued in it
\* still runs, and a pool that was never used has nothing to wait for.
TearsDown ==
  /\ life \in {"failing", "closing"}
  /\ open = {}
  /\ life' = "tearing"
  /\ UNCHANGED <<leaving, polling, open, callVars, overdue>>

TornDown ==
  /\ life = "tearing"
  /\ \A w \in Calls \X Jobs : work[w] \in {"none", "done"}
  /\ life' = "over"
  /\ UNCHANGED <<leaving, polling, open, callVars, overdue>>

\* Only now does the task capability, which wraps all of this, stop its loops;
\* the executions in flight are left to finish.
TasksStop ==
  /\ life = "over"
  /\ life' = "stopped"
  /\ polling' = FALSE
  /\ UNCHANGED <<leaving, open, callVars, overdue>>

-----------------------------------------------------------------------------
(* A call, on the loop. *)

\* The state gates what comes over http; a WSX message arrives on a socket
\* that is open already, and a batch comes from the worker loop. The ASGI
\* server serves http from the end of the startup to the end of the lifespan, and
\* has closed its sockets when it sends lifespan.shutdown.
Admits(c) ==
  CASE Origin[c] = "http" -> ~leaving
    [] Origin[c] = "message" -> life = "serving"
    [] Origin[c] = "task" -> polling

Offered(c) ==
  /\ pc[c] = "new"
  /\ LoopRuns
  /\ Origin[c] = "http" => life \in {"serving", "draining", "stopping", "closing"}

\* Registered, and its handler begins: on the loop, or in the pool's queue.
Arrives(c) ==
  /\ Offered(c)
  /\ Admits(c)
  /\ IF c \in Synchronous
       THEN /\ pc' = [pc EXCEPT ![c] = "pooled"]
            /\ work' = [work EXCEPT ![<<c, "body">>] = "queued"]
            /\ queue' = Append(queue, <<c, "body">>)
       ELSE /\ pc' = [pc EXCEPT ![c] = "handler"]
            /\ UNCHANGED <<work, queue>>
  /\ UNCHANGED <<lifeVars, taken, cancelled, cancels, cut, overdue>>

\* 503 with Retry-After; nothing is registered.
Refused(c) ==
  /\ Offered(c)
  /\ Origin[c] = "http"
  /\ ~Admits(c)
  /\ pc' = [pc EXCEPT ![c] = "refused"]
  /\ UNCHANGED <<lifeVars, work, queue, taken, cancelled, cancels, cut, overdue>>

\* The finally around a call: its cleanups, then out of the registry. What an
\* async handler took is released on the pool; a synchronous one has released
\* on its thread. "base" is the work as the end of the handler leaves it.
EndsCall(c, base) ==
  IF taken[c]
    THEN /\ pc' = [pc EXCEPT ![c] = "releasing"]
         /\ work' = [base EXCEPT ![<<c, "release">>] = "queued"]
         /\ queue' = Append(queue, <<c, "release">>)
    ELSE /\ pc' = [pc EXCEPT ![c] = "gone"]
         /\ work' = base
         /\ UNCHANGED queue

\* An async handler takes a database: no I/O, on the loop.
Takes(c) ==
  /\ LoopRuns
  /\ pc[c] = "handler"
  /\ ~taken[c]
  /\ taken' = [taken EXCEPT ![c] = TRUE]
  /\ UNCHANGED <<lifeVars, pc, work, queue, cancelled, cancels, cut, overdue>>

\* It awaits a terminal of the database, which runs on the pool.
Asks(c) ==
  /\ LoopRuns
  /\ pc[c] = "handler"
  /\ taken[c]
  /\ pc' = [pc EXCEPT ![c] = "pooled"]
  /\ work' = [work EXCEPT ![<<c, "body">>] = "queued"]
  /\ queue' = Append(queue, <<c, "body">>)
  /\ UNCHANGED <<lifeVars, taken, cancelled, cancels, cut, overdue>>

Returns(c) ==
  /\ LoopRuns
  /\ pc[c] = "handler"
  /\ EndsCall(c, work)
  /\ UNCHANGED <<lifeVars, taken, cancelled, cancels, cut, overdue>>

\* pool.run wakes: its work is done. A cancellation that waited for it wins.
Wakes(c) ==
  /\ LoopRuns
  /\ pc[c] = "pooled"
  /\ work[<<c, "body">>] = "done"
  /\ LET idle == [work EXCEPT ![<<c, "body">>] = "none", ![<<c, "inner">>] = "none"]
     IN  IF c \in Synchronous \/ cancelled[c]
           THEN EndsCall(c, idle)
           ELSE /\ pc' = [pc EXCEPT ![c] = "handler"]
                /\ work' = idle
                /\ UNCHANGED queue
  /\ cancelled' = [cancelled EXCEPT ![c] = FALSE]
  /\ UNCHANGED <<lifeVars, taken, cancels, cut, overdue>>

\* The release is over. A cancellation that waited for it is raised out of
\* run_cleanups, which catches Exception only: the cleanups queued before the
\* release are skipped.
Unregisters(c) ==
  /\ LoopRuns
  /\ pc[c] = "releasing"
  /\ work[<<c, "release">>] = "done"
  /\ pc' = [pc EXCEPT ![c] = "gone"]
  /\ work' = [work EXCEPT ![<<c, "release">>] = "none"]
  /\ cut' = [cut EXCEPT ![c] = cancelled[c]]
  /\ cancelled' = [cancelled EXCEPT ![c] = FALSE]
  /\ UNCHANGED <<lifeVars, queue, taken, cancels, overdue>>

\* The loop runs the coroutine of a thread blocked in run_on_loop.
CoroutineAsks(c) ==
  /\ LoopRuns
  /\ work[<<c, "body">>] = "parked"
  /\ work[<<c, "inner">>] = "none"
  /\ work' = [work EXCEPT ![<<c, "inner">>] = "queued"]
  /\ queue' = Append(queue, <<c, "inner">>)
  /\ UNCHANGED <<lifeVars, pc, taken, cancelled, cancels, cut, overdue>>

\* As if the coroutine went with the call that was cancelled.
HandsBackToLive(c) ==
  /\ LoopRuns
  /\ ~cancelled[c]
  /\ work[<<c, "body">>] = "parked"
  /\ work[<<c, "inner">>] = "done"
  /\ work' = [work EXCEPT ![<<c, "body">>] = "running"]
  /\ UNCHANGED <<lifeVars, pc, queue, taken, cancelled, cancels, cut, overdue>>

HandsBack(c) ==
  /\ LoopRuns
  /\ work[<<c, "body">>] = "parked"
  /\ work[<<c, "inner">>] = "done"
  /\ work' = [work EXCEPT ![<<c, "body">>] = "running"]
  /\ UNCHANGED <<lifeVars, pc, queue, taken, cancelled, cancels, cut, overdue>>


-----------------------------------------------------------------------------
(* Cancellation: the ASGI server cancels http calls past its graceful       *)
(* timeout, a WSX connection the messages left when it drains, and the end  *)
(* of the loop whatever is left, batches too.                               *)

MayCancel(c) ==
  /\ LoopRuns
  /\ cancels[c] < MaxCancels
  /\ CASE Origin[c] = "http" -> leaving
       [] Origin[c] = "message" -> TRUE
       [] Origin[c] = "task" -> life = "stopped"

CancelHandler(c) ==
  /\ MayCancel(c)
  /\ pc[c] = "handler"
  /\ EndsCall(c, work)
  /\ cancels' = [cancels EXCEPT ![c] = @ + 1]
  /\ UNCHANGED <<lifeVars, taken, cancelled, cut, overdue>>

\* Queued work is withdrawn, and the call ends.
CancelQueued(c) ==
  /\ MayCancel(c)
  /\ pc[c] = "pooled"
  /\ work[<<c, "body">>] = "queued"
  /\ EndsCall(c, [work EXCEPT ![<<c, "body">>] = "none"])
  /\ cancels' = [cancels EXCEPT ![c] = @ + 1]
  /\ UNCHANGED <<lifeVars, taken, cancelled, cut, overdue>>

\* As if a cancelled run did not wait for its thread.
CancelInterrupts(c) ==
  /\ MayCancel(c)
  /\ pc[c] = "pooled" /\ work[<<c, "body">>] \in {"running", "parked", "done"}
  /\ EndsCall(c, work)
  /\ cancels' = [cancels EXCEPT ![c] = @ + 1]
  /\ UNCHANGED <<lifeVars, taken, cancelled, cut, overdue>>

\* Work that runs is waited for: of the call or of its release.
CancelRunning(c) ==
  /\ MayCancel(c)
  /\ \/ pc[c] = "pooled" /\ work[<<c, "body">>] \in {"running", "parked", "done"}
     \/ pc[c] = "releasing" /\ work[<<c, "release">>] \in {"running", "done"}
  /\ cancelled' = [cancelled EXCEPT ![c] = TRUE]
  /\ cancels' = [cancels EXCEPT ![c] = @ + 1]
  /\ UNCHANGED <<lifeVars, pc, work, queue, taken, cut, overdue>>

\* A release still in the queue is withdrawn: the cancellation comes out of
\* run_cleanups and the databases stay with a call that is over.
CancelRelease(c) ==
  /\ MayCancel(c)
  /\ pc[c] = "releasing"
  /\ work[<<c, "release">>] = "queued"
  /\ pc' = [pc EXCEPT ![c] = "gone"]
  /\ work' = [work EXCEPT ![<<c, "release">>] = "none"]
  /\ cut' = [cut EXCEPT ![c] = TRUE]
  /\ cancels' = [cancels EXCEPT ![c] = @ + 1]
  /\ UNCHANGED <<lifeVars, queue, taken, cancelled, overdue>>

-----------------------------------------------------------------------------
(* The pool's threads. After a shutdown of the pool the next work builds a  *)
(* new one.                                                                 *)

\* A thread takes the next work; one that was withdrawn meanwhile is dropped.
ThreadTakes ==
  /\ queue # <<>>
  /\ Cardinality(Busy) < Threads
  /\ work' = IF work[Head(queue)] = "queued" THEN [work EXCEPT ![Head(queue)] = "running"] ELSE work
  /\ queue' = Tail(queue)
  /\ UNCHANGED <<lifeVars, pc, taken, cancelled, cancels, cut, overdue>>

\* A synchronous handler takes a database on its thread.
BodyTakes(c) ==
  /\ work[<<c, "body">>] = "running"
  /\ c \in Synchronous
  /\ ~taken[c]
  /\ taken' = [taken EXCEPT ![c] = TRUE]
  /\ UNCHANGED <<lifeVars, pc, work, queue, cancelled, cancels, cut, overdue>>

\* run_on_loop: the thread waits for the loop, once.
BodyParks(c) ==
  /\ work[<<c, "body">>] = "running"
  /\ c \in Nests
  /\ work[<<c, "inner">>] = "none"
  /\ work' = [work EXCEPT ![<<c, "body">>] = "parked"]
  /\ UNCHANGED <<lifeVars, pc, queue, taken, cancelled, cancels, cut, overdue>>

\* The handler returned or raised. route_cleanup, in the finally of a routed
\* handler, releases on this thread; a batch has no such finally.
BodyEnds(c) ==
  /\ work[<<c, "body">>] = "running"
  /\ work' = [work EXCEPT ![<<c, "body">>] = "done"]
  /\ taken' = IF c \in Synchronous /\ Origin[c] # "task"
                THEN [taken EXCEPT ![c] = FALSE] ELSE taken
  /\ UNCHANGED <<lifeVars, pc, queue, cancelled, cancels, cut, overdue>>

InnerEnds(c) ==
  /\ work[<<c, "inner">>] = "running"
  /\ work' = [work EXCEPT ![<<c, "inner">>] = "done"]
  /\ UNCHANGED <<lifeVars, pc, queue, taken, cancelled, cancels, cut, overdue>>

\* release_databases: each handler once, one that raises stops no other.
Releases(c) ==
  /\ work[<<c, "release">>] = "running"
  /\ work' = [work EXCEPT ![<<c, "release">>] = "done"]
  /\ taken' = [taken EXCEPT ![c] = FALSE]
  /\ UNCHANGED <<lifeVars, pc, queue, cancelled, cancels, cut, overdue>>

-----------------------------------------------------------------------------
Lifecycle ==
  \/ \E d \in Databases : Opens(d) \/ Closes(d)
  \/ RunsHooks \/ FatalBoot \/ Started
  \/ Signal \/ StartsLeaving \/ Drained \/ DrainTimesOut
  \/ ShutdownHooksRun \/ TearsDown \/ TornDown \/ TasksStop

LoopSteps(c) ==
  \/ Arrives(c) \/ Refused(c) \/ Takes(c) \/ Asks(c) \/ Returns(c)
  \/ Wakes(c) \/ Unregisters(c) \/ CoroutineAsks(c) \/ HandsBack(c)
  \/ CancelHandler(c) \/ CancelQueued(c) \/ CancelRunning(c) \/ CancelRelease(c)

ThreadSteps(c) ==
  \/ BodyTakes(c) \/ BodyParks(c) \/ BodyEnds(c) \/ InnerEnds(c) \/ Releases(c)

Next ==
  \/ Lifecycle
  \/ \E c \in Calls : LoopSteps(c) \/ ThreadSteps(c)
  \/ ThreadTakes

\* The loop runs what is ready, the threads take work first in first out, and
\* synchronous handlers return. An async handler may stay on the loop for
\* ever (an endless response), and nobody has to stop the server.
Fairness ==
  /\ WF_vars(Drained \/ DrainTimesOut \/ ShutdownHooksRun)
  /\ WF_vars((\E d \in Databases : Closes(d)) \/ TearsDown \/ TornDown \/ TasksStop)
  /\ \A c \in Calls :
       /\ WF_vars(Wakes(c) \/ Unregisters(c))
       /\ WF_vars(CoroutineAsks(c) \/ HandsBack(c))
       /\ WF_vars(BodyEnds(c) \/ InnerEnds(c) \/ Releases(c))
  /\ WF_vars(ThreadTakes)

Spec == Init /\ [][Next]_vars /\ Fairness

-----------------------------------------------------------------------------
(* Properties. *)

\* Every variable has its type, and the pool never runs more than its threads.
TypeOK ==
  /\ life \in Lives
  /\ leaving \in BOOLEAN
  /\ polling \in BOOLEAN
  /\ open \subseteq Databases
  /\ pc \in [Calls -> InFlight \cup {"new", "refused", "gone"}]
  /\ work \in [Calls \X Jobs -> Status]
  /\ queue \in Seq(Calls \X Jobs)
  /\ taken \in [Calls -> BOOLEAN]
  /\ cancelled \in [Calls -> BOOLEAN]
  /\ cancels \in [Calls -> 0 .. MaxCancels]
  /\ cut \in [Calls -> BOOLEAN]
  /\ overdue \subseteq Calls
  /\ Cardinality(Busy) <= Threads

\* A call that left the registry has released its databases, whatever way it
\* ended, unless a cancellation came out of run_cleanups (server.py:381-387,
\* request_registry.py:118-137, routed_application.py:381-397).
HeldOnlyWhenCut ==
  \A c \in Calls : pc[c] = "gone" /\ taken[c] => cut[c]

\* The release of a call's databases never overlaps the thread that still uses
\* them, however often the call was cancelled (pool.py:103-146).
ReleaseFollowsUse ==
  \A c \in Calls :
    work[<<c, "release">>] = "running" => work[<<c, "body">>] = "none"

\* A call under way holds databases of open handlers only: the gate, the drain
\* and the order of the shutdown see to it. Out of it are the calls that the
\* drain gave up on and the batches, which nothing gates (lifespan.py:145-167).
HeldIsOpen ==
  \A c \in Calls :
    Registered(c) /\ taken[c] =>
      open = Databases \/ c \in overdue \/ Origin[c] = "task"

\* The databases of a call are open while it holds them and are given back: the
\* three above together.
DatabasesAreKept == TypeOK /\ HeldOnlyWhenCut /\ ReleaseFollowsUse /\ HeldIsOpen

\* The loop waits for a thread that waits for the loop.
Wedged == life = "tearing" /\ \E c \in Calls : work[<<c, "body">>] = "parked"

\* What a call awaits of the pool comes, cancelled or not, if the pool has a
\* thread more than handlers nest and the server does not end on a thread that
\* waits for its loop (pool.py:103-146, server.py:421-449).
PoolAnswers ==
  \A c \in Calls : pc[c] \in {"pooled", "releasing"} ~>
                     (pc[c] \notin {"pooled", "releasing"} \/ Wedged)

\* Once the ASGI server asked for it, the shutdown comes to its end, whatever
\* calls do not (lifespan.py:145-167).
ShutdownEnds == life = "draining" ~> (life = "stopped" \/ Wedged)

\* The same without exception, and the claim of run_on_loop that the loop runs
\* the coroutine (server.py:435).
ShutdownEndsAnyway == life = "draining" ~> life = "stopped"

\* The state turns first "so no application saves while new work can still
\* arrive" (lifespan.py:148-150): under the hooks of the shutdown, only what
\* the drain gave up on is in flight.
NothingNewUnderHooks ==
  life \in {"stopping", "closing"} =>
    \A c \in Calls : Registered(c) => c \in overdue
=============================================================================
