# A verification project for kajenn

kajenn is an ASGI server in Python: one `BaseServer`/`AsgiServer` that mounts
applications, runs their synchronous handlers on pools of threads, keeps users,
tokens and sessions, runs batches and recurring tasks, talks WebSocket (WSX) and
MCP, and may host an application in a process of its own behind a message
dispatcher ("kbus"). The modules here model the parts of it whose correctness
depends on an order of steps that no test writes down. TLC checks them on small
instances; TLAPS proves what matters most for instances of every size.

Source paths below are relative to `src/src/kajenn/` unless they say otherwise.

## Inventory

### What runs concurrently

* **The event loop.** Everything `async` runs on one loop. Between two awaits a
  coroutine is not interrupted; at an await any ready coroutine may go on.
* **Threads.** Synchronous handlers, store I/O and spool I/O leave the loop:
  `server.run_sync` (server.py:421) hands them to a pool (`pool.py`), the
  executor and the worker loop use `asyncio.to_thread`. Two threads interleave
  between any two storage calls.
* **Processes.** An external application is another process that runs the same
  code in a "role" and is a member of the server's dispatcher.
* **The disk.** Spool, schedule records, users, tokens, sessions: JSON files
  written through `genro_storage` nodes. No locks; a file write is a whole
  write, a folder move is one rename. It outlives the process.

### Components

| component | state | operations | hard behaviours | what makes it correct |
|---|---|---|---|---|
| batch spool, worker loop, executor (`tasks/spool.py`, `manager.py`, `executor.py`) | folders and files on disk; loop tasks | create, assign, execute, progress, cancel, settle, purge; start, stop | crash between stamp and move; cancel or purge that located a folder before it moved; a purge of a live batch; a claim during create | one run per batch; position = state; result = outcome; everything pending is claimed |
| recurring scheduler and store (`tasks/scheduler.py`, `store.py`, `tasks_section.py`) | schedule records, logs, `_running` | tick, sync defaults, run, settle, run_now, edits | read-modify-write on threads; check-then-add from a pool thread; a store that raises | no overlap; due is fired; the guard is dropped; edits survive |
| schedule algorithms (`tasks/schedule.py`) | none | next run of an interval, a list of instants, a cron line | boundaries, exhausted lists | the next run is the first instant after "now" that matches |
| spawner and membership (`spawner.py`, `kbus_mixin.py`) | processes, watchers, relaunches, backoff, pids | ensure, watch, relaunch, stop, joined, member lost | exit racing stop, timeout racing exit, cancelled relaunch, late disconnect | one process per role; it comes back; stop leaves nothing |
| credential cache and revocation (`auth/`, `tokens_section.py`, `kbus_mixin.py`) | token records; one cache per process | authenticate, verify, revoke, delete, forget everywhere | verification in flight across a revoke; a process that joins late | a revoked credential is not accepted once revoke has answered |
| calls and streams over the bus (`kbus_mixin.py`, `remote_application.py`, `asgi_endpoint.py`) | admission slots, open streams, sockets | forward http, relay, forward websocket, serve stream | a stream that ends on either side, cancellation, a full budget | slots are returned; answers are neither mixed nor truncated silently |
| server lifecycle (`server.py`, `lifespan.py`, `request_registry.py`, `pool.py`) | state, leaving, in-flight items, pools, databases | lifespan startup and shutdown, register, drain, run_sync, take and release a database | failing hooks, drain timeout, work submitted while stopping | what was started is stopped, in reverse; every database taken is released |
| WSX and websockets (`wsx.py`, `websocket.py`) | connections, pending requests | handshake, request, reply, close | concurrent requests on a connection, slow readers, close racing replies | one answer per request, on its own connection |
| login and users (`server_app/server_app.py`, `users_section.py`, `auth/user_store.py`) | records with a failure counter | login, lockout, create, save, set password, delete | read-modify-write of whole records on overlapping threads, a slow hash between | a login answers for a record that was valid; updates are lost only by overlap |
| sessions and OIDC (`session/`, `middleware/session.py`, `oidc_method.py`) | live sessions, a snapshot file, flows | find or create, write back, purge, logout, login, both legs of a flow | requests that hold a session that is gone, two flows on one session, a crash | a session speaks for its browser; a flow serves once; logout is final |
| event hub and MCP push (`tasks/hub.py`, `applications/mcp.py`, `sse.py`) | queues per session | publish, replay, subscribe, follow, leave | full queues, a snapshot between reading and subscribing, cancellation | no task goes back, the newest event is kept, streams close |
| command line and site cards (`__main__.py`) | cards, pid files, homes, processes | serve, stop, remove, configure, db | processes that share files with no lock, reused pids | what is on file is true; a card boots; a reload serves the same |
| configuration and composition (`config/`, `asgi_server.py`, `application.py`) | layers of a recipe; what a server and each process were built from | build, register, mount, claim a path, join, rejoin | a recipe edited between two boots; a process that presents other paths | a path has one owner and keeps it; what is built is what was declared |
| demultiplexing and middlewares (`server.py`, `middleware/`) | none between requests | demux, errors, cors, session | the order of the chain around an exception | an answer carries what its middlewares add |
| request execution (`routed_application.py`, `request.py`, `http_record.py`, `asgi_endpoint.py`, `mcp/`) | a request and its scope | decode, identify, route, admit, call, answer, on three faces and in two processes | two processes that know different things of one request | the same answer wherever the application runs; a handler runs for who it admits |

How they meet: a request enters the demux through the middlewares
(`RequestExecution`); if its application has a process of its own it is carried
there (`RemoteForward`), to a process that was built from the same recipe
(`ServerComposition`) and that somebody keeps alive (`ProcessSupervisor`); who it
runs as is decided by a credential (`CredentialRevocation`) or a session
(`LoginSessions`), which a login dressed (`UserAccounts`). Its handler runs on the
pool of a server that may be leaving (`ServerLifecycle`), may come over a socket
(`WsxConnection`, `WebsocketRelay`), and may launch a batch (`TaskSpool`), by hand
or on a schedule (`TaskScheduler`), whose events are pushed back (`TaskEvents`).
The whole is started and stopped from a shell (`SiteCommands`).

## Plan and status

1. `TaskSpool` over `BatchLifecycle`, `CredentialRevocation`, `ServerLifecycle`,
   `WsxConnection`: checked and proved.
2. `TaskScheduler`, `ProcessSupervisor`, `RemoteForward` with `WebsocketRelay`,
   `LoginSessions`: checked and proved.
3. `UserAccounts`, `TaskEvents`, `SiteCommands`, `ServerComposition` and
   `RequestExecution`: checked and proved. With these every safety property and
   every action property of a run is a theorem.
4. The algorithms of `tasks/schedule.py`, as functions against a reference.

### Not modelled

* `tasks/schedule.py`, the arithmetic of instants: calendars and cron lines are
  pure functions of a clock; `TaskScheduler` takes their outcome as an input.
* OpenAPI documents and the pydantic plugin: text generated from signatures at
  startup. What a signature refuses is a field of a route.
* The pages, the mobile client, the read-only sections (monitor, databases, auth)
  and the snapshots they render: they change nothing.
* The logging middleware, logs, metrics, keepalive comments, wording and layout.
* A site that switches the `errors` middleware off, and the development reloader's
  watcher.
* The libraries `genro_storage`, `genro_routes`, `genro_bag`, `kbus`, uvicorn and
  the operating system: where a model needs them they are external definitions,
  written from how the code uses them.

## Modules

### `BatchLifecycle`

The abstract promise of the spool: a task id is absent, then pending, active,
terminated or aborted, and gone. Each step is taken at most once per id;
housekeeping may take an id at any stage, and it does not come back.

### `TaskSpool` — the batch backbone

State: `files[t][p]` and `descr[t][p]` are folder `<p>/<t>` (its files, and the
status in its `descriptor.json`); `sender`, `canceller`, `purger`, `claim` and
`exec` are the program counters of the handler inside `create`, the users inside
`request_cancel` and `purge`, the thread inside `assign` and the loop task inside
`execute`;
`loop`/`listed` are `_worker_loop` and the descriptors of the drain under way;
`server`/`lives` are the process and its incarnations. `runs` counts handler
starts and `early` is the batches purged before they were settled; both are
history only.

Every storage call that changes or reads a decision is an action of its own, so
`create` is two actions, `assign` and `settle` three each (look and read, stamp,
rename), `request_cancel` and `purge` two. Some places deserve a word:

* a write creates the folders above the file. A user who located
  `pending/<id>` before the claim moved it writes the marker into a second,
  stray folder. `_find_folder` looks at `active/` last, so the stray folder hides
  the real one;
* the two reads of `execute` are before its `try`: they move the execution to
  `lost`, and nothing settles it;
* `purge` says "Remove a settled task's folder" and looks at no state. Nothing in
  `src/` calls it: the tasks section has no such route, so whoever holds the
  spool may call it at any moment, and the model lets them. Where `assign` or
  `settle` has read the descriptor by then, its stamp writes it back; where it
  has not, the stamp makes a descriptor with a status and nothing else
  (`Nameless`). `list_pending` returns that one too, and `_drain_pending` raises
  `KeyError` on its missing `task_id` (`DrainFails`): a process that dies between
  such a stamp and the rename leaves a folder on which every later poll fails.

What holds whatever is purged is `RunsOnce` and the refinement. What the folder
tells is claimed of the batches nobody purged before they were settled, and a
batch is forgotten only when its polls fail (`PollsFail`) or when its execution was
lost, or it was purged unsettled.

One storage worker (`WORKER_ID`), so `active/<worker>` is one place. Fields of
the descriptor other than its status, and the hub, are left out. A write of one
file is one step (a reader never sees half a JSON text). `publish_progress` looks
and writes in one step: all that could come between is a purge, and a purge
followed by the write of the result leaves the same kind of stray folder.

### `TaskScheduler` — recurring schedules

State: `record[c]` is `<code>.json` (what its cadence does next, enabled, next
run), `log[t]` the JSONL log as its lines, `running` the in-memory
guard, `runs` the `_execute` tasks, `tick`/`due` the tick coroutine, `caller[w]`
a pool thread inside `run_now`, `admin` an operator inside an edit.

A record is changed by reading all of it and later writing all of it, on
different threads: `UpdateReads`/`UpdateSaves` (settlement), `LogReads`/
`LogWrites`, `SyncLooks`/`SyncCreates` (defaults), `AdminReads`/`AdminSaves`
(edits), `NowReads`/`NowChecks`/`NowAdds`/`NowStarts` (`run_now`). What the loop
does between two awaits (`FireDue`) is one action. `raced` and `leaked` are
history: a `run_now` that added a code already in the guard, and a settlement
that ended with its code still in it. `LogWrites` keeps the newest `LogCap` lines.

### `ProcessSupervisor` — one external application

State: the processes as the operating system has them (`os`), their `_watch`
tasks, the spawner's dictionaries for one role (`process`, `watcher`, `started`,
`joined`, `backoff`, `entry`), its `_relaunch` tasks, the URLs minted, the
connected member, `kbus_pids`, and where `_serve_with_children` is. Times are
relative (time since a start, saturated at the largest value a test reads), so
the state space is finite without a bound on the clock.

A relaunch is `RelaunchStarts`, `RelaunchEnded`, `RelaunchWakes`,
`RelaunchSpawned` (or `RelaunchFails`), with `RelaunchCancelled` at every await.
`stop` is `StopRole`, `StopCancelled`, `StopEnded`; `_stop_children` runs twice.
`LoopBusy` says that coroutines which wait only for their turn run before time
passes or a spawn completes: asyncio's ready queue is first in, first out.
The dispatcher is external (`kbus`); assumed of it is that it reports the loss of a
member (`MemberLost`) before it admits the same name again (`Connects`), which may be
long after the process was replaced. Were it to report later, `_member_lost` would pop
the pid of the new process.

### `CredentialRevocation` — withdrawn credentials

State: which records are `valid`; per process the `cache` (when each entry ends)
and `_credential_cache_generation`; the `life` of the processes of the role and
`pid`, the one in `kbus_pids`; per credential the `route` that withdraws it, the
caches it must empty (`drops`) and where its call to each process is (`forget`);
the requests `req`.

A request `Opens` on the server or on the joined process, `Looks` in the cache,
and if it is not there asks the server: `Verifies` is the read on a pool thread,
`Judges` the return to the caller's loop, which fills the cache only if the
generation is still the one of the question. `Revoke`/`Withdraw` change the
record and `ForgetCredential` empties the caches and calls the processes;
`Forgets`, `Confirms` and `GivesUp` are that call, its answer and its timeout,
after which the process is told to leave. `accepted` is history: was the request
opened after the route answered, was it looked at before the expiry.

### `ServerLifecycle` — startup, calls, shutdown

State: `life` (where the lifespan is), `leaving`, `polling` (the worker loop of
the tasks), the open database handlers; per call its place `pc`, the `work` it
gave to the pool, whether databases are `taken`, and its cancellations; the
executor's `queue`.

A call is an http request, a WSX message or a batch. It `Arrives` through the
gate (a batch has none), `Takes` databases, gives its body to the pool, is woken,
and `Unregisters`, which runs the cleanups: on the pool if it holds databases.
`BodyParks`, `CoroutineAsks` and `HandsBack` are a synchronous handler that
blocks in `run_on_loop` on a coroutine which needs the pool too. A cancellation
of a call whose work runs is remembered and raised when the work ends
(`pool.py`). `TearsDown`/`TornDown` are `pool.shutdown(wait=True)`, which blocks
the loop: no step of the loop is possible meanwhile (`LoopRuns`).

External: the ASGI server closes its sockets before it sends `lifespan.shutdown`
and cancels http requests only when it leaves; the executor is first in, first
out.

### `WsxConnection` — connections, messages, pages

State: `serve` (the coroutine of a connection), `left` (clients gone),
`connected`, the registry (`sockets`, and `bound`, the socket of a page), and per
message the place of its task, with the `queue` of those that wait for a slot and
those the drain `cut`.

`Handshake`, `GateOpens`, `GateCloses` are the gate; `Reads` and `ReadsPing` the
reader (a ping is answered by the reader itself, with no slot); `Starts`,
`AppAnswers`, `AppRaises`, `Cleans`, `Writes` a message's task; `ReadsDisconnect`,
`Drained`, `DrainTimesOut` the end; `CancelGate`, `CancelReading`, `CancelDrain`
the cancellation by the ASGI server. An `openchannel` that is answered binds its
page. `newest`, `granted`, `overtaken`, `answered`, `torn` are history. A client
opens the channel of a page on another socket only after it lost the first, which
is what the browser does; the content of messages is left out.

### `RemoteForward`: requests carried to a process

State: `at[c]`, where `_forward` of a call is; `free`, `line` and `held`, the slots
of the mount; `stream[c]` and `wire[c]`, the stream of the bus with what is under
way on it; `app[c]`, where the call is in the process; `starts` and `answer`, what
the client was given; `joined`, whether a process is there.

Both sides are event loops: an action is what one does between two awaits. A
stream keeps order, has a window, and is aborted by the side that leaves it early;
a death loses it. The deadline runs over the slot, the body and the first message
(`TimesOut` at any of `Waiting`), a failure before the start travels as a message
(`AppFailsEarly`), one after it as an abort (`AppFailsLate`), a client that leaves
aborts (`ClientLeft`). A WSK call is buffered and not watched (`BufferedStarts`). A
call an application makes (`CalledBy`) comes back to the same mount and wants a
slot too.

### `WebsocketRelay`: sockets carried to a process

Extends `RemoteForward` with the sockets of `_forward_websocket` and
`_serve_websocket_stream`; they share the process, which `EndsSockets` ends for
both. A socket has two tasks at the mount: the one that reads the client
(`ForwardsEvent`, `ForwardsLeave`, `StopsReading`) and the one that reads the
process (`Carries`, `EndsCleanly`, `Breaks`). `got` is how the client learnt of the
end. `load` is fixed at the start: which calls and sockets come together, so that
an instance is a sum of cases and not their product.

`StopsReading` deserves a word: an event the bus refuses (over `max_frame`) ends
the reading task with no trace, and the socket stays open. Nothing tells the
application when its client then leaves; `SocketsEnd` leaves such sockets out and
is violated if it does not.

### `UserAccounts`: login and the records of users

State: `store`, the record of an identity; `task`, the handler on each pool thread
with the record it `found`. A handler is one action per read or write of the
store: `login` reads for the lock, reads again and hashes (`Verify`), and writes
back (`LoginSucceeds`, or a refusal); the section reads a record, changes it and
writes all of it. `since` (the records held since a task read), `overlapped` and
`failures` are history. A body may carry the counter itself: the section merges it
(`MetadataOf`, `CountOf`), so an operator can lift a lock or impose one, and what is
told afterwards counts on top of what was set. Assumed: a policy with at least one
attempt and a backoff (`PolicyAssumption`), and that a count or an instant in a body
is a natural number (`BodiesAssumption`); fields that neither the section nor `login`
reads are left out.

### `LoginSessions`: cookies, sessions, OIDC flows

State: `object`, the live sessions; `stored`, those the store still has;
`snapshot`, the pickle of the last clean stop; `cookie`, the jar of a browser;
`request`, what is in progress, which holds its session whatever the store does.
The store is touched on the loop, so an action is what happens between two awaits;
the two legs of an OIDC login await the provider. A handler that raises passes
`SessionMiddleware` without cookie or write-back.

### `TaskEvents`: progress pushed to an MCP client

State: per task what is on disk (`status`, `snap`) and what was published
(`told`); per stream its queue, where it stands, what it still replays, the event
in hand and what its client has `seen`. A spool call is a step of its own, so
snapshots are on disk before they are published; `publish` drops the oldest event
of a full queue. `get_until_leaving` is `Parks`, with its cancelled `get`.

### `SiteCommands`: the command line

State: `cards`, `pidfile`, `homes` and `recipes` on disk; `proc`, the processes of
the operating system with what a launch read and built; `shell`, the command in
each shell. Every write of a file is an action; `stop` and `remove` look and then
act. `Named`, `ServerOf`, `Payload`, `Rebuilt` are what a launch makes of its
options, the configuration and the card, here and in a reloaded process.

A source is a class, a template, or the path of a recipe, absolute (`file`) or
relative (`recipe`). A relative path is `config.py`, as `configure` names it: the one
of the home when there is a home, given or adopted (`Resolved`), else that of the
working directory, which the model takes to be no site's home. So a launch that takes its home from the
configuration has built one file and names another from then on: its card and its
reload mean `<home>/config.py`, which may hold another recipe, or none. What the
recipe outside the homes says of its site is `Declared`; `here` says whether the
working directory of a command is the one that holds it.

### `ServerComposition`: what a server and its processes are built from

State: `disk`, the recipe as it is now; `proc`, of the server and of each role,
its configuration, the entries it has yet to register (`pending`), the
applications it mounted and its well-known paths, declared and given as default;
`joined`. `Boot` reads the configuration and takes the entries that are this
process's (`Places`: the server all of them, a role the one it hosts, without its
spawner: `Hosted`), `Register` takes the first of them and claims its paths,
`Settle` is what the constructor refuses in the end; a role's process reads the
recipe again and joins (`Joins`), or is refused when a path it presents is
another's (`Rejects`). The recipe may be edited between two boots. A server may
also be composed in code, from keywords (`Composed`). `RecipesAssumption` says
that recipes are lists of entries, and that the management nobody declared runs
in the server.

### `RequestExecution`: one request, wherever it runs

Extends `ServerComposition`: the composition goes on while a request is under way.
The request crosses the middlewares and the demux (`Demuxes`), and is executed in
the server or recorded (`Recorded`), carried and rebuilt (`Received`) in a process;
`Performed` is the same execution in both, in the order of the code: body,
identity, route, admission, arguments, handler, answer. The json-rpc face
(`Dispatched`, `Listing`, `Called`) is one more way to reach a handler. Data is
reduced to what the answers tell apart: a body is its kind and the origin of its
fields, a handler is what it does.

What a caller sends may fail before any of that: `InitFault` reads headers,
cookies and query outside any `try` (`torn` is a request whose cookies or query do
not decode), and `Encoded` is the encoder that the header `X-TYTX-Transport` names,
whatever it names (`transport`), applied to an answer of data after the handler has
run. Both end as a 500, and `OnlyCrashesAre500` names them beside a handler that
raised and a stream where the face has none; path, credential, arguments and body
never do. An HTTP request may have any method, `WSK` included, which the server
gives its own messages.

`Parity` speaks of the paths that lead in the process where they lead in the server
(`Crosses`). An application on the root that declares `/livez` as the route
`healthz` has one that does not, as has one whose mount begins with a dot: the
process answers 404 where the server would have served it. It excepts a stream
asked for by HTTP with the method `WSK` too, which the process buffers as it does
a message. Each exception was met by a run or by the proof, which fails without
it, and each is a finding. What is assumed of requests (`RequestsAssumption`) and
of recipes (`RoutesAssumption`) is the types of their fields: that a tool is called
by a name, and that a well-known path names a path.

## Runs

A run checks each component with a few invariants. Most are conjunctions of named
parts, each with its own comment in the module: `FolderTells` is
`StatusFollowsPosition`, `ResultTellsOutcome`, `ExecutionOwnsFolder` and
`LostOnlyWhenTorn` with the types, and so on. TLC names the conjunction; the part
that failed is the one that is false in the last state.

| run | what it asks | states |
|---|---|---|
| `spool` | two batches, one of them cancelled or purged by a user at any stage, two lives of the process: no handler runs twice, the folder of a batch not purged before its end tells the truth, what is pending is claimed, and the spool implements the life of a batch | 185 262 |
| `scheduler` | a declared schedule and an orphan, one thread in `run_now`, two events: when runs overlap, what holds a schedule back, whether a due one is fired | 149 947 |
| `supervisor` | three events and a shutdown at any point: one process per role, it comes back, a stop ends and leaves nothing | 81 483 |
| `credentials` | one credential withdrawn and expiring under two requests, on a server and two successive processes | 299 385 |
| `lifecycle` | a call of each origin through startup, a shutdown at any point, two cancellations each | 273 048 |
| `wsx` | a page that moves from a lost socket to another, with an endless call and a ping on the first | 250 138 |
| `forward` | one slot for an endless answer, a message whose handler calls back to its mount, and that call; or the endless answer and a websocket; one death of the process | 148 986 |
| `accounts` | four calls on one identity by two threads, in every order, with bodies that set the counter, a clock and a crash | 318 241 |
| `sessions` | two browsers, two requests in progress, a stop or a crash: sessions, logout, OIDC flows | 1 953 773 |
| `events` | two tasks and a stream, resumed or not, over a queue of two, with the server leaving at any point | 162 820 |
| `sites` | five commands of one site from two shells, with two pids that are reused, and sources of each kind | 1 843 411 |
| `exchange` | 25 recipes, one edit, three boots, and one of 296 requests by HTTP, WSX or bus, some of which do not decode, name no encoder or have the method of a message | 539 473 |

Deadlock is not checked in these runs: a server that has stopped for good, a
spool in which every batch is settled, or clients that are gone leave nothing to
do.

### What the docs say and the code does not do

Every entry of "findings" in PROJECT.json is a sentence of a doc, a comment or a
docstring beside what the code does. Those about an order of steps are stated as
definitions that no run checks, because TLC refutes them; to see the behaviour,
add the definition to the cfg of its component.

| definition | module | as | what the counterexample shows |
|---|---|---|---|
| `ExecutionSettles` | `TaskSpool` | INVARIANT | a claim between the two writes of `create`: the execution is lost before its `try` |
| `NoOverlap` | `TaskScheduler` | INVARIANT | `run_now` adds to the guard after the tick tested it |
| `StoppedBeforeComplete` | `ProcessSupervisor` | INVARIANT | a watcher relaunches while `stop` awaits a cancellation |
| `ShutdownEndsAnyway` | `ServerLifecycle` | PROPERTY | the loop waits for a thread that waits for the loop |
| `NothingNewUnderHooks` | `ServerLifecycle` | INVARIANT | the worker loop claims a batch after the drain |
| `AssociationFollows` | `WsxConnection` | INVARIANT | an older openchannel in flight is granted last |
| `OneAnswer` | `RemoteForward` | INVARIANT | the deadline passes while a 413 is being written: two starts |
| `CounterKeepsUp` | `UserAccounts` | INVARIANT | two overlapping refusals count as one |
| `WrittenBack` | `LoginSessions` | INVARIANT | a handler that raises leaves its session dirty and, if new, without cookie |
| `CaughtUp` | `TaskEvents` | INVARIANT | an event between the replay and the subscription is in neither |
| `EveryRunIsKnown` | `SiteCommands` | INVARIANT | of two runs of one name the first to end clears the pid of the other |
| `ReloadsWhatWasBuilt` | `SiteCommands` | INVARIANT | a relative recipe declares the home: the reload looks for it there |

### Bounds, and why they are enough

* `spool`: tasks do not share state except the worker loop, the drain list and
  the one claiming thread, so two tasks show every interference; one of them is
  left alone by users. `MaxVisits = 1` puts one cancel or one purge at every point;
  the theorems cover any number of them, with any number of each. `MaxLives = 2`
  puts one crash or stop at every point and leaves a last life in which progress
  is asked for.
* `scheduler`: schedules share the tick, the log of a task and the pool; one
  declared and one orphan schedule, one `run_now` thread (two runs of a schedule
  need only the tick and one caller), two events, two instants (due and not due).
  `LogCap = 2` for the code's 200: a log reaches it and drops its oldest line.
* `supervisor`: every hazard takes at most two events and the stop; three are
  allowed. `MaxPids` is above what three events can start, so no behaviour is
  cut. `Interval = 1`, `Ceiling = Reset = 2` make the backoff double, reach its
  ceiling and start over.
* `credentials`: credentials interfere only when one call drops several, and the
  proof covers any number; two requests put one verification in flight across
  everything the other does; two processes give a late joiner and a relaunch.
  `TTL = 2`, `Expires = 1` and `MaxTime = 1` put the expiry of the credential
  inside the span of a cache entry that would otherwise outlive it.
* `lifecycle`: a call of each origin, one nested, one asynchronous; two threads
  are a thread more than handlers nest, one fewer is a documented deadlock of the
  pool; `MaxCancels = 2` covers a cancellation of a call already being cancelled.
* `wsx`: messages of different connections meet only in the registry, so one page
  and two sockets are enough; one slot makes an endless handler block the others.
* `forward`: one slot makes the answer, the message and the call it makes compete
  for it; a window of one message makes every sender wait; one death at any point
  is followed by another process. A socket meets the calls only in the process, so
  it runs beside one of them; a window of one makes its two directions block.
* `accounts`: records are independent, so one identity; two threads are every pair
  of overlapping handlers and four calls are two refusals, a success and an
  operator; a backoff of one tick ends inside the run.
* `sessions`: two browsers tell a session's owner from another; three requests, two
  at a time, put a second `start`, a callback and a logout across one flow; an
  idleness of one tick expires between two requests.
* `events`: a queue of two with three events per task overflows; two tasks tell an
  event of one from an event of the other.
* `sites`: one name and two pids (files of different names never meet); five
  commands are two launches, a stop and a remove around them, and a stranger.
* `exchange`: one request at a time is enough, for requests share no state but the
  composition; the recipes hold one reason of refusal each, and the four a server
  is sent requests under put each application in the server and in a process, on
  the root, on a mount and as the default. The routes hold one handler of each kind.

The liveness properties of `exchange` and `sites` would be those of their parts
(`RemoteForward`, `ProcessSupervisor`) and are not stated again: these two runs,
`accounts` and `sessions` are about safety and assume no fairness.

### Fairness

* `spool`: the loop, its tasks and its threads get to run (asyncio and the
  operating system schedule them), handlers return (a handler that never does is
  outside the spool's promise), a process told to stop ends and one that went
  down is started again (the service manager). No fairness on users (cancel or
  purge) or crashes.
* `scheduler`: the clock, the tick, the runs and the callers go on; no fairness
  on edits, failures or restarts.
* `supervisor`: the clock, ready coroutines, and the end of a process that was
  told to end: `_end` kills it past `shutdown_timeout`. No fairness on events.
* `credentials`: the route goes on and `asyncio.timeout` fires. Nothing is asked
  of the process that should confirm.
* `lifecycle`: the loop, the timers, the threads; synchronous handlers return.
  None on asynchronous handlers, on the steps of the startup or on signals.
  Weak fairness is enough for the queue: it is first in, first out.
* `wsx`: the loop and the timer of the drain. None on clients, handshakes or
  cancellations; handlers in `Endless` never return.
* `forward`: the timer of the deadline, the tasks of a relay and of an aborted
  stream get to run. For websockets also: an application reads its events and
  returns once it is told of the end (ASGI asks that of it). None on clients, on the
  death or the return of a process, or on http applications.
* `events`: an open stream goes on writing, for its client reads. None on tasks,
  on publications or on the server leaving.

## Proofs

Every property of a run that speaks of states or of steps is a theorem, for every
value of the constants:

| module | theorems, and what they state of a run |
|---|---|
| `BatchTasks_proofs` | `HandlersRunOnce` (`RunsOnce`), `FoldersTell`, `SpoolImplementsLifecycle`; `NothingNewMissed`, `NoneGoesBack` |
| `TaskScheduler_proofs` | `GuardHolds` (`GuardIsRight`), `LogIsKept` |
| `ProcessSupervisor_proofs` | `RoleHasOneLife`, `NothingIsLeft`, `RelaunchesAreFair` |
| `Identity_proofs` | `AcceptedWasValid` (`OnlyValidIsAccepted`); `LockoutIsExact` (`AccountsHold`), `LoginsWereValid`, `UpdatesAreLostByOverlap` |
| `Server_proofs` | `CallsKeepDatabases`; `FilesStayTrue`, `ReloadServesTheSame`, `DbLeavesNothingOpen`, `ServingKeepsCards` |
| `Websockets_proofs` | `AssociationIsRight` (`AssociationHolds`); `AnswersOnce` (`AnsweredOnce`) |
| `LoginSessions_proofs` | `SessionsAreTrue`, `LogoutLasts`, `SessionsLast` |
| `RequestExecution_proofs` | `WhatIsBuiltIsDeclared` (`BuiltAsDeclared`), `PathsStayTheirs` (`NobodyLosesAPath`); `HandlersRunAsAllowed`, `FaultsAreOfHandlers` (`OnlyCrashesAre500`), `ProcessesAnswerAlike` (`Parity`) |

Where the property of a run is a conjunction, a part that has a meaning of its own
has a theorem of its own. A module of proofs may hold two components that are
near to each other; their specifications have names of their own then
(`EventsSpec`, `AccountsSpec`, `SitesSpec`, `ConnectionsSpec`). The assumptions
are the named ASSUMEs of the modules, which TLC evaluates in every run.

`BatchTasks_proofs` proves, for every set of tasks and every number of lives, each
safety property of the run `spool` and its refinement of `BatchLifecycle`.
The assumptions are those of the module: `Attended \subseteq Tasks`,
`MaxVisits \in Nat` and `MaxLives \in Nat \ {0}`.

The invariants are not inductive alone. That no handler starts twice rests on who
can still have a hand on the task: `Custody` says it per task and whatever is
purged (what is listed or being claimed has no execution, what is described in
`pending` has none either, and no run is counted before the execution got there).
`OneClaim` says that no thread holds a claim while the loop sleeps. The rest is
said of a batch that was not purged before it was settled: `Held` is where its
descriptor is meanwhile (listed or asked: in `pending`; moved or in flight: in
`active`; settled: the execution is over), `Label` what status it carries there,
and `Verdict` ties the result file to the outcome of the execution.
`IInv` is `TypeOK` with these five; `Init => IInv` and
`IInv /\ [Next]_vars => IInv'` give every theorem. The step lemma is split by
actor: a step of one task (`TaskStep`) leaves the others untouched
(`OthersUntouched`, `Frame`), so each conjunct is proved for the task that moves
and framed for the rest; a step of the process (`ServerStep`) is proved apart.

The refinement maps a task to the stage of the folder that holds its descriptor,
"absent" before `create` and "gone" after `purge`; `ClaimMoves`, `SettleMoves`,
`SenderDescribes` and `PurgeRemoves` are the steps of the abstract machine and
everything else is a stutter. A batch purged before its end (`early`) maps to
"gone" from then on, though late writers may make its folder again.

The events (`TaskEvents`) are proved in the same module, for any tasks, streams,
length of the queues and number of snapshots. The invariant is one chain per stream
and task: what a client has seen is no later than the event in hand, that no later
than those of the queue in their order, and those no later than what was told
(`Given`, `Queued`, `Known`), so that nothing goes back whether a stream reads its
queue or replays a snapshot (`Snapshots`). `Newest` says that the last event of a
queue, or with an empty queue the one in hand, is the newest of the session: this
is what dropping the oldest keeps. `Due` follows the last event that was queued
when the server began to leave, from the queue to the hand to the client. A queue
holds at least one event (`EventAssumption`); with none the newest would be
dropped too.

`Identity_proofs` proves, for any sets of credentials, processes and
requests and any expiries, `WithdrawnIsRefused` and `ExpiredIsRefused`. The first
needs the whole chain of the protocol: the record goes before the caches
(`RecordGoesFirst`), a generation never goes back under a request that was asked
(`GenerationsPass`), a process that has not joined has seen no request
(`NewIsEmpty`), a call to a process belongs to a route that waits for it
(`CallsFollowRoute`), the server and every process addressed that forgot are clean
of the credential (`ForgottenWhereAddressed`), and a request opened after the
answer can only meet clean caches (`LateIsClean`). The second needs only that an entry never ends
after its credential (`ExpiryCounts`). That a role has one process at a time is
an assumption of the model, proved in `ProcessSupervisor_proofs`.

The records of users (`UserAccounts`) come after, for any identities, threads,
bodies and policy. A handler holds a record it read across a hash that takes long.
The invariant says what it may count on: alone at its identity, what it read is
what the store has (`Undisturbed`); in company, the identity is one of the
overlapped (`Together`), and it knows only that what it saw was there during its
own time (`Remembers`, `Judged`). From the first follows that the counter is exact
until two calls overlap, whatever a body sets it to (`CountIsMerged`), from the second that a login answers for a record which
was enabled and had that password while it was asked. `UpdatesAreLostByOverlap`
is about a step: `Admitted` (the section refused what its operation cannot do) and
`Undisturbed` give the record that is overwritten.

`Server_proofs` proves, for any finite set of calls and any number of
threads, `HeldOnlyWhenCut`, `ReleaseFollowsUse` and `HeldIsOpen`. The invariant
says what a call awaits: its body while it is pooled (`BodyIsAwaited`), its release
while it unregisters (`ReleaseIsAwaited`), nothing after (`DoneIsReleased`,
`Quiet`); and what the shutdown has already closed when (`LeavesBeforeDrain`,
`OpenInside`). `TypeOK` contains the bound on busy threads.

The command line (`SiteCommands`) follows, for any names, homes, pids, shells,
launches and declarations. `FilesFit` says of each file, command and process by
itself that it fits: a card whose home nobody adopted can be served, a server has what
its launch has (unless its relative source moved with the home it adopted, `Moved`), a db command has open what it did not close, and the
pid a signal goes to was written under its name. A step has to show it only of
what it wrote (`StepFits`), since homes and recipes are only added to. That a
running site is on file under its own pid is `Known`, and needs what the commands
at its files came for: while the site is served they are there to signal its
process, and none to clear its file. It holds until two commands are at the
files of one name together.

`Websockets_proofs` proves, of `WsxConnection`, for any sockets, pages and slots and any finite set
of messages, `PageIsReached` and `BoundIsRegistered`. `Links` relates the registry
to the connections (`Registration`, `ReadPastGate`), the associations to the
registry and to the openchannels granted (`BindersRegistered`, `Bindings`,
`GrantedAnswered`), and the newest openchannel of a page to the page
(`NewestOfPage`). `TypeOK` contains the bound on running messages (`Slots`), which
is where the finiteness of `Messages` is used.

In the same module `AnswersOnce` is proved, of `WebsocketRelay`, the
mount with its sockets, for any
finite set of calls, any sockets and loads, and any number of slots, window and
deaths. The finiteness of `Calls` is used to count the slots held. The invariant
adds three facts to the statement: the last body on a wire is one the application
finished with (`LastIsFinished`), how often a call may have started its answer by
where it is (`StartsSoFar`), and what a socket that is no longer carried cannot be
(`SocketsSane`). A step of a socket leaves the calls alone and a step of a call
leaves the sockets alone, so the two halves are proved apart; the death of the
process, which ends both, is proved for both.

`TaskScheduler_proofs` proves, for any schedules, tasks, threads of `run_now` and
bounds, `GuardHolds` and `LogIsKept`. `_running` is a set that the tick takes on
the loop and `run_now` on a pool thread, which fires in a later step. The three
statements about it are inductive with `AddedIsAlone`: a thread that added a code
without a race is the only one with a claim to a run of it, so the run it starts
finds no other. `AdminHolds`, `RunsHold` and `CallersHold` type what an operator, a
run and a thread carry across their awaits. For the log, `LinesAreLog` says that
what a run read before it rewrites the file is still what the file holds, while no
other schedule writes there and no `run_now` raced; the guard gives that two runs
of the schedule are then never both appending. `Capped` is what `append_log` makes
of it, for any cap: the new line at the end, and the oldest gone if the log was full.

`ProcessSupervisor_proofs` proves, for any number of processes and events and any
backoff, `RoleHasOneLife`, `NothingIsLeft` and `RelaunchesAreFair`. That two
relaunches never run against each other is no single check in the code: an entry
can be dropped by the finally of another relaunch. What makes it right is an
account of who may still ask: the watcher of the process once, its membership once
(`CanAsk`). A relaunch in progress has used up one of the two (`AskedOnce`), a
second or an unlisted one both (`AskedTwice`, `OrphansAreLast`). To these come what
the record of relaunches holds (`Ids`, `EntryIsFree`, `CancelledIsAwaited`), that the
process before has ended when the next one is spawned (`Sequential`, `Minted`), what
the membership knows (`Members`), where the two stops are (`Phases`, `EndsForGood`),
that what is ended was reported (`ReportedFirst`) and the backoff (`Spacing`).

`LoginSessions_proofs` proves, for any browsers, restored sessions, times and
stops and any finite set of requests, `SessionsAreTrue`, `LogoutLasts` and
`SessionsLast`. A session is written by requests that hold it across awaits, so
the invariant relates three places: the session is its owner's and the flow on it
was begun on it (`Honesty`), a request holds a session of its browser and, while
it exchanges a code, the flow of that session (`Holding`), and until a crash
neither the store nor the snapshot of a clean stop holds anything spent or logged
out (`Final`). `Numbered` says that tokens are minted in order, with room in the
type for one more per request that may still begin a flow: this is where the
finiteness of `Requests` is used.

`RequestExecution_proofs` first proves what a server is built from. `ProcHolds` says
of each process, while it builds and when it serves: its applications are the
entries it has registered so far, each once, with codes and mounts apart
(`Registered`), and an application that runs there holds the paths it declares and
the defaults it gives, no more and no less (`LocalsHold`). `RolesAreHosted` gives a
role its mount, and `JoinedHold` the paths of the server to the process that joined.
A claim is then one fact about an index (`ReindexedIs`, `OthersKeep`): what was
free or its own is claimed, and nothing of another's moves. That the recipe was
read by the server and again by the role, maybe after an edit, is in the two
configurations, so `RoleServesItsOwn` compares them only when they are equal.

Above it, one request. `RequestInv` says where it is: it has the scope of its face
(`Asked`), and until it is answered it is at a process that is there and at an
application that its path leads to (`UnderWay`, with `PathsLead` for the well-known
ones and `Reached` for those that are forwarded). The rest is about operators:

* `PerformedIs`: an execution is either nothing of a handler's (`Unrun`, a
  fault only when the request is torn or names no encoder) or a route that ran for who its rule admits (`Permitted`). It holds
  for the whole application and for its json-rpc face, and `AnswerStatus` turns it
  into `OnlyCrashesAre500`;
* `PerformedAlike`: an execution depends on the application only by what the mount
  and the process have in common (`SameApp`), on the scope without the identity and
  the session (`SameScope`), and on who acts. What crosses keeps both: `ThereIs` for
  the scope, `SentActs` for who acts, since a header is verified by the process and a
  session is resolved by the server;
* `DemuxThere`: the path that was forwarded leads, in the process, to the
  application and the route it was forwarded for. This is where the proof asked for
  `Crosses`, and `ParityBeyond` is what `Parity` says of the other paths: nothing;
* `ReturnedAnswers`: an outcome that crossed back is answered as it would have been,
  but for a stream that was asked for as a message.

An answer stays right after it was given (`AnswersStayRight`): while the server
serves, what it was built from does not change, whoever joins or ends
(`ServingStays`).

Only model-checked: the liveness properties (`NoneIsForgotten`, `DueIsFired`,
`RoleLives`, `WithdrawalEnds`, `PoolAnswers`, `ShutdownEnds`, `RequestsAnswered`,
`ConnectionEnds`, `AnsweredInTime`, `GoneIsTold`, `ClosesByItself`), which rest on
fairness and are beyond the prover. No module here declares a RECURSIVE operator.
