------------------------------ MODULE TaskEvents ------------------------------
(***************************************************************************)
(* The live events of the batch tasks of one MCP session: the executor and *)
(* publish_progress that write the spool and publish (tasks/executor.py,   *)
(* tasks/manager.py), the hub with its bounded queues (tasks/hub.py), and  *)
(* the push stream that replays snapshots, subscribes and follows its      *)
(* queue until the server leaves (applications/mcp.py, sse.py,             *)
(* streaming.py, BaseServer.get_until_leaving).                            *)
(*                                                                         *)
(* An event is <<task, rank>>: 0 for `started`, then the number of the     *)
(* progress snapshot, then Final.  A step that runs on a pool thread       *)
(* (every spool call, and publish_progress when the handler is sync) is an *)
(* action of its own, so a snapshot is on disk before it is published.     *)
(***************************************************************************)
EXTENDS Integers, Sequences, FiniteSets

CONSTANTS
  Launched,      \* batch tasks launched by the session
  Streams,       \* its GET requests
  QueueSize,     \* QUEUE_MAXSIZE
  MaxProgress    \* snapshots a task writes: a bound of the instance

ASSUME EventAssumption == QueueSize \in Nat \ {0} /\ MaxProgress \in Nat

VARIABLES
  resuming,       \* the streams that come with a Last-Event-ID
  status, snap,   \* of each task on the spool: its state and its last snapshot
  told,           \* the rank each task published last, or -1
  newest,         \* the event published last to the session
  queue,          \* the hub's queue of each stream
  hub,            \* the streams subscribed
  at,             \* where each stream stands
  todo,           \* what it still replays: tasks, then events
  hand,           \* the event it is writing
  seen,           \* the rank of each task its client received last
  leaving,        \* BaseServer.leaving
  due             \* history: the event last queued for each stream as the server left

task == <<status, snap, told>>
stream == <<at, todo, hand, seen>>
eventVars == <<resuming, task, newest, queue, hub, stream, leaving, due>>

Final == MaxProgress + 1
NoEvent == <<>>
Events == Launched \X (0..Final)
Unseen == [t \in Launched |-> -1]
Open(s) == at[s] \notin {"off", "done", "cancelled"}

(***************************************************************************)
(* The hub                                                                 *)
(***************************************************************************)
\* Mutant of Put: a full queue refuses the event.
PutUnlessFull(q, e) == IF Len(q) = QueueSize THEN q ELSE Append(q, e)

\* put_nowait after get_nowait when the queue is full.
Put(q, e) == Append(IF Len(q) = QueueSize THEN Tail(q) ELSE q, e)

\* A reader parked on an empty queue is woken; once the server leaves it has
\* been woken already, and may go before it looks at the queue again.
Publish(e) ==
  /\ queue' = [s \in Streams |-> IF s \in hub THEN Put(queue[s], e) ELSE queue[s]]
  /\ at' = [s \in Streams |-> IF at[s] = "parked" /\ ~leaving THEN "ready" ELSE at[s]]
  /\ newest' = e
  /\ told' = [told EXCEPT ![e[1]] = e[2]]
  /\ due' = [s \in Streams |-> IF Len(queue[s]) = QueueSize THEN NoEvent ELSE due[s]]
  /\ UNCHANGED <<resuming, hub, todo, hand, seen, leaving>>

(***************************************************************************)
(* A task: started, its snapshots, settled                                 *)
(***************************************************************************)
Quiet == UNCHANGED <<resuming, told, newest, queue, hub, stream, leaving, due>>

\* Assigned and started: both folders are listed, so one state stands for both.
Started(t) ==
  /\ told[t] = -1 /\ Publish(<<t, 0>>) /\ UNCHANGED <<status, snap>>
WritesProgress(t) ==
  /\ status[t] = "active" /\ told[t] = snap[t] /\ snap[t] < MaxProgress
  /\ snap' = [snap EXCEPT ![t] = @ + 1]
  /\ UNCHANGED status /\ Quiet
PublishesProgress(t) ==
  /\ told[t] # -1 /\ told[t] < snap[t]
  /\ Publish(<<t, snap[t]>>) /\ UNCHANGED <<status, snap>>
Settles(t) ==
  /\ status[t] = "active" /\ told[t] = snap[t]
  /\ status' = [status EXCEPT ![t] = "settled"]
  /\ UNCHANGED snap /\ Quiet
PublishesSettled(t) ==
  /\ status[t] = "settled" /\ told[t] # Final
  /\ Publish(<<t, Final>>) /\ UNCHANGED <<status, snap>>

(***************************************************************************)
(* A stream                                                                *)
(***************************************************************************)
Goes(s, where) == at' = [at EXCEPT ![s] = where]
Reading == UNCHANGED <<resuming, task, newest, leaving, due>>

\* Mutant of Opens: the queue is subscribed before the baseline is read.
OpensSubscribed(s) ==
  /\ at[s] = "off" /\ Reading
  /\ Goes(s, IF s \in resuming THEN "lists" ELSE "replays")
  /\ hub' = hub \cup {s}
  /\ UNCHANGED <<queue, todo, hand, seen>>

\* GET, with Last-Event-ID or without.
Opens(s) ==
  /\ at[s] = "off" /\ Reading
  /\ Goes(s, IF s \in resuming THEN "lists" ELSE "replays")
  /\ UNCHANGED <<queue, hub, todo, hand, seen>>

\* _baseline, on a pool thread: the tasks not settled, then the snapshot of each.
Lists(s) ==
  /\ at[s] = "lists" /\ Goes(s, "reads") /\ Reading
  /\ todo' = [todo EXCEPT ![s] = {t \in Launched : status[t] # "settled"}]
  /\ UNCHANGED <<queue, hub, hand, seen>>
Reads(s) ==
  /\ at[s] = "reads" /\ Goes(s, "replays") /\ Reading
  /\ todo' = [todo EXCEPT ![s] = {<<t, snap[t]>> : t \in {u \in @ : snap[u] > 0}}]
  /\ UNCHANGED <<queue, hub, hand, seen>>

Writes(s, e) == seen' = [seen EXCEPT ![s][e[1]] = e[2]]

Replays(s) ==
  /\ at[s] = "replays" /\ Reading
  /\ \E e \in todo[s] : Writes(s, e) /\ todo' = [todo EXCEPT ![s] = @ \ {e}]
  /\ UNCHANGED <<queue, hub, at, hand>>

Subscribes(s) ==
  /\ at[s] = "replays" /\ todo[s] = {} /\ Goes(s, "ready") /\ Reading
  /\ hub' = hub \cup {s}
  /\ UNCHANGED <<queue, todo, hand, seen>>

\* get_until_leaving: the item when there is one, though the server leaves.
Takes(s) ==
  /\ at[s] \in {"ready", "parked"} /\ queue[s] # <<>> /\ Goes(s, "writes") /\ Reading
  /\ hand' = [hand EXCEPT ![s] = Head(queue[s])]
  /\ queue' = [queue EXCEPT ![s] = Tail(@)]
  /\ UNCHANGED <<hub, todo, seen>>
Parks(s) ==
  /\ at[s] = "ready" /\ queue[s] = <<>> /\ ~leaving /\ Goes(s, "parked") /\ Reading
  /\ UNCHANGED <<queue, hub, todo, hand, seen>>

\* The chunk is sent once the client takes it.
Sends(s) ==
  /\ at[s] = "writes" /\ Goes(s, "ready") /\ Reading
  /\ Writes(s, hand[s]) /\ hand' = [hand EXCEPT ![s] = NoEvent]
  /\ UNCHANGED <<queue, hub, todo>>

\* The finally of _event_source.
Unsubscribes(s, how) ==
  /\ Goes(s, how) /\ hub' = hub \ {s} /\ queue' = [queue EXCEPT ![s] = <<>>]
  /\ todo' = [todo EXCEPT ![s] = {}] /\ hand' = [hand EXCEPT ![s] = NoEvent]
  /\ seen' = IF how = "done" THEN seen ELSE [seen EXCEPT ![s] = Unseen]
  /\ Reading

\* Mutant of ReturnsNone: a parked reader is not woken by the leaving.
ReturnsNoneUnparked(s) ==
  /\ leaving /\ at[s] = "ready" /\ queue[s] = <<>> /\ Unsubscribes(s, "done")

\* get_until_leaving answers None: the stream ends with its last, empty chunk.
ReturnsNone(s) ==
  /\ leaving /\ (at[s] = "parked" \/ (at[s] = "ready" /\ queue[s] = <<>>))
  /\ Unsubscribes(s, "done")

\* The request is cancelled at any await.
Cancelled(s) == Open(s) /\ Unsubscribes(s, "cancelled")

StartsLeaving ==
  /\ ~leaving /\ leaving' = TRUE
  /\ due' = [s \in Streams |-> IF queue[s] = <<>> THEN NoEvent ELSE queue[s][Len(queue[s])]]
  /\ UNCHANGED <<resuming, task, newest, queue, hub, stream>>

EventsInit ==
  /\ resuming \in SUBSET Streams
  /\ status = [t \in Launched |-> "active"] /\ snap = [t \in Launched |-> 0]
  /\ told = [t \in Launched |-> -1] /\ newest = NoEvent
  /\ queue = [s \in Streams |-> <<>>] /\ hub = {}
  /\ at = [s \in Streams |-> "off"] /\ todo = [s \in Streams |-> {}]
  /\ hand = [s \in Streams |-> NoEvent]
  /\ seen = [s \in Streams |-> Unseen]
  /\ leaving = FALSE /\ due = [s \in Streams |-> NoEvent]

Runs(t) ==
  \/ Started(t) \/ WritesProgress(t) \/ PublishesProgress(t)
  \/ Settles(t) \/ PublishesSettled(t)
Serves(s) ==
  \/ Lists(s) \/ Reads(s) \/ Replays(s) \/ Subscribes(s) \/ Takes(s) \/ Parks(s)
  \/ Sends(s) \/ ReturnsNone(s)

EventsNext ==
  \/ \E t \in Launched : Runs(t)
  \/ \E s \in Streams : Opens(s) \/ Serves(s) \/ Cancelled(s)
  \/ StartsLeaving

\* The loop runs what is ready, and a client that is not cancelled reads.
EventsFairness == \A s \in Streams : WF_eventVars(Serves(s))
EventsSpec == EventsInit /\ [][EventsNext]_eventVars /\ EventsFairness
-----------------------------------------------------------------------------
(***************************************************************************)
(* Properties                                                              *)
(***************************************************************************)
\* Every variable stays in its type, and the hub holds the queues of exactly
\* the streams that follow it: a stream that ended in any way left none behind.
EventsTypeOK ==
  /\ status \in [Launched -> {"active", "settled"}]
  /\ snap \in [Launched -> 0..MaxProgress] /\ told \in [Launched -> -1..Final]
  /\ \A s \in Streams : queue[s] \in Seq(Events) /\ Len(queue[s]) <= QueueSize
  /\ hand \in [Streams -> Events \cup {NoEvent}]
  /\ seen \in [Streams -> [Launched -> -1..Final]]
  /\ hub = {s \in Streams : at[s] \in {"ready", "parked", "writes"}}

\* However slow the client, the event it still has to get last is the newest of
\* the session: what publish drops is older (EventHub.publish).
NewestIsKept ==
  \A s \in hub :
    /\ queue[s] # <<>> => queue[s][Len(queue[s])] = newest
    /\ queue[s] = <<>> /\ hand[s] # NoEvent => hand[s] = newest

\* No stream takes a task back to an earlier state, though its snapshots come
\* off the disk and its events off the queue.
NeverBackwards ==
  [][\A s \in Streams, t \in Launched :
       at'[s] # "cancelled" => seen'[s][t] >= seen[s][t]]_eventVars

\* A stream that ends because the server leaves gave its client what was queued
\* before that, unless newer events pushed it out (get_until_leaving).
DrainsBeforeLeaving ==
  \A s \in Streams : at[s] = "done" /\ due[s] # NoEvent => seen[s][due[s][1]] >= due[s][2]

\* A stream misses nothing but what newer events pushed out, to its end.
NothingNewIsMissed == EventsTypeOK /\ NewestIsKept /\ DrainsBeforeLeaving

\* Once the server leaves, every stream ends by itself while its client reads;
\* no cancellation is needed.
ClosesByItself == \A s \in Streams : leaving /\ Open(s) ~> ~Open(s)

\* A reader that resumed has the latest state of every running task whenever it
\* waits: "a late subscriber replays the progress.json snapshot, then follows
\* the live queue".
CaughtUp ==
  \A s \in resuming, t \in Launched :
    at[s] = "parked" /\ status[t] = "active" /\ told[t] > 0 => seen[s][t] >= told[t]
=============================================================================
