--------------------------- MODULE WsxConnection ---------------------------
(***************************************************************************)
(* The WSX connections of a server, from the handshake to the end of the   *)
(* drain, the messages each of them serves, and the registry that says     *)
(* which socket a page speaks on (wsx.py, websocket.py, server.py).        *)
(*                                                                         *)
(* A connection reads on one coroutine, serve, and serves each message on  *)
(* a task of its own. The client may leave at any moment; the ASGI server  *)
(* cancels serve past its graceful timeout, never the tasks.               *)
(***************************************************************************)
EXTENDS Naturals, Sequences, FiniteSets

CONSTANTS
  Connections,        \* the connections
  Pages,          \* the pages of the browsers
  Messages,       \* the messages the clients may send, each once
  On,             \* the socket a message is sent on
  Kind,           \* "rpc" (with an id), "event" (without), "ping" or "open"
  PageOf,         \* the page of an openchannel
  NeverReturns,        \* the messages whose handler never returns by itself
  MaxConcurrent,  \* websocket_max_concurrent
  none            \* no socket, no message

ASSUME FiniteAssumption == IsFiniteSet(Messages)
ASSUME MessageAssumption ==
  /\ On \in [Messages -> Connections]
  /\ Kind \in [Messages -> {"rpc", "event", "ping", "open"}]
  /\ PageOf \in [Messages -> Pages]
  /\ NeverReturns \subseteq Messages
ASSUME SlotAssumption == MaxConcurrent \in Nat \ {0}
ASSUME NoneAssumption == none \notin Connections \cup Messages

VARIABLES
  leaving,    \* the state of the server is not RUNNING
  serve,      \* where the coroutine of the connection is
  gone,       \* the clients that are gone
  connected,  \* WebSocket.connected
  sockets,    \* WebSocketRegistry._sockets
  bound,      \* WebSocketRegistry._page_sockets
  msg,        \* where the task of a message is
  queue,      \* the messages that wait for a slot of their connection
  cut,        \* the tasks that the drain cancelled
  newest,     \* history: the last openchannel of a page
  granted,    \* history: the openchannels that bound their page
  overtaken,  \* history: the pages an older openchannel took from the newest
  answered,   \* history: the messages whose answer reached the client
  torn        \* history: the connections cancelled in their drain

connectionVars == <<leaving, serve, gone, connected, sockets, bound, msg, queue, cut, newest, granted,
          overtaken, answered, torn>>
registry == <<sockets, bound>>
history == <<newest, granted, overtaken, answered, torn>>

Of(s) == {m \in Messages : On[m] = s}

\* The tasks of a connection that are not done.
InFlight == {"waiting", "running", "cleaning", "writing"}
Tasks(s) == {m \in Of(s) : msg[m] \in InFlight}
Running(s) == {m \in Of(s) : msg[m] = "running"}

ConnectionsInit ==
  /\ leaving = FALSE
  /\ serve = [s \in Connections |-> "new"]
  /\ gone = {}
  /\ connected = [s \in Connections |-> FALSE]
  /\ sockets = {}
  /\ bound = [p \in Pages |-> none]
  /\ msg = [m \in Messages |-> "unsent"]
  /\ queue = [s \in Connections |-> <<>>]
  /\ cut = {}
  /\ newest = [p \in Pages |-> none]
  /\ granted = {}
  /\ overtaken = {}
  /\ answered = {}
  /\ torn = {}

-----------------------------------------------------------------------------
(* The environment: the client, the signal. *)

ClientLeaves(s) ==
  /\ serve[s] # "new"
  /\ s \notin gone
  /\ gone' = gone \cup {s}
  /\ UNCHANGED <<leaving, serve, connected, registry, msg, queue, cut, history>>

Signal ==
  /\ ~leaving
  /\ leaving' = TRUE
  /\ UNCHANGED <<serve, gone, connected, registry, msg, queue, cut, history>>

-----------------------------------------------------------------------------
(* serve. *)

\* on_websocket judges the state before the handshake.
Handshake(s) ==
  /\ serve[s] = "new"
  /\ serve' = [serve EXCEPT ![s] = IF leaving THEN "over" ELSE "gate"]
  /\ UNCHANGED <<leaving, gone, connected, registry, msg, queue, cut, history>>

\* The Origin, the home application, the cookie and the identity pass: accepted
\* and registered.
GateOpens(s) ==
  /\ serve[s] = "gate"
  /\ serve' = [serve EXCEPT ![s] = "reading"]
  /\ connected' = [connected EXCEPT ![s] = TRUE]
  /\ sockets' = sockets \cup {s}
  /\ UNCHANGED <<leaving, gone, bound, msg, queue, cut, history>>

\* Refused before the accept, or closed 1008 after it: never registered.
GateCloses(s) ==
  /\ serve[s] = "gate"
  /\ serve' = [serve EXCEPT ![s] = "over"]
  /\ UNCHANGED <<leaving, gone, connected, registry, msg, queue, cut, history>>

\* The client is one browser: a page opens a channel on another socket once
\* the one it had is lost.
ClientSends(m) ==
  /\ msg[m] = "unsent"
  /\ serve[On[m]] = "reading"
  /\ Kind[m] = "open" =>
       \A previous \in {newest[PageOf[m]]} \ {none} : On[previous] \in gone \cup {On[m]}

\* As if the ping were served like any message.
ReadsPingAsMessage(m) ==
  /\ ClientSends(m)
  /\ Kind[m] = "ping"
  /\ msg' = [msg EXCEPT ![m] = "waiting"]
  /\ queue' = [queue EXCEPT ![On[m]] = Append(@, m)]
  /\ UNCHANGED <<leaving, serve, gone, connected, registry, cut, history>>

\* A ping is answered by the reader itself, which writes before it reads on.
ReadsPing(m) ==
  /\ ClientSends(m)
  /\ Kind[m] = "ping"
  /\ msg' = [msg EXCEPT ![m] = "writing"]
  /\ serve' = [serve EXCEPT ![On[m]] = "ponging"]
  /\ UNCHANGED <<leaving, gone, connected, registry, queue, cut, history>>

\* Any other message: a task, registered, which waits for a slot.
ReadsMessage(m) ==
  /\ ClientSends(m)
  /\ Kind[m] # "ping"
  /\ msg' = [msg EXCEPT ![m] = "waiting"]
  /\ queue' = [queue EXCEPT ![On[m]] = Append(@, m)]
  /\ IF Kind[m] = "open"
       THEN /\ newest' = [newest EXCEPT ![PageOf[m]] = m]
            /\ overtaken' = overtaken \ {PageOf[m]}
       ELSE UNCHANGED <<newest, overtaken>>
  /\ UNCHANGED <<leaving, serve, gone, connected, registry, cut, granted, answered, torn>>

\* The pong is written; a client that is gone makes the write raise, which ends
\* the reading with the socket still marked connected.
Pongs(m) ==
  /\ Kind[m] = "ping"
  /\ msg[m] = "writing"
  /\ serve[On[m]] = "ponging"
  /\ msg' = [msg EXCEPT ![m] = "done"]
  /\ IF On[m] \in gone
       THEN /\ serve' = [serve EXCEPT ![On[m]] = "draining"]
            /\ UNCHANGED answered
       ELSE /\ serve' = [serve EXCEPT ![On[m]] = "reading"]
            /\ answered' = answered \cup {m}
  /\ UNCHANGED <<leaving, gone, connected, registry, queue, cut, newest, granted, overtaken, torn>>

\* read_message sees the disconnect.
ReadsDisconnect(s) ==
  /\ serve[s] = "reading"
  /\ s \in gone
  /\ serve' = [serve EXCEPT ![s] = "draining"]
  /\ connected' = [connected EXCEPT ![s] = FALSE]
  /\ UNCHANGED <<leaving, gone, registry, msg, queue, cut, history>>

\* As if a page went with any socket it ever spoke on.
UnboundByPage(s) ==
  [p \in Pages |-> IF \E m \in granted : On[m] = s /\ PageOf[m] = p THEN none ELSE bound[p]]

\* The pages that still speak on the socket that ends.
Unbound(s) == [p \in Pages |-> IF bound[p] = s THEN none ELSE bound[p]]

Unregisters(s) ==
  /\ serve' = [serve EXCEPT ![s] = "over"]
  /\ sockets' = sockets \ {s}
  /\ bound' = Unbound(s)

DrainEnds(s) ==
  /\ serve[s] = "draining"
  /\ Tasks(s) = {}
  /\ Unregisters(s)
  /\ UNCHANGED <<leaving, gone, connected, msg, queue, cut, history>>

\* As if the drain had no bound.
DrainsUnbounded(s) ==
  /\ serve[s] = "draining"
  /\ FALSE
  /\ UNCHANGED connectionVars

\* Five seconds passed: what is pending is cancelled, and nobody waits for it.
DrainTimesOut(s) ==
  /\ serve[s] = "draining"
  /\ Tasks(s) # {}
  /\ cut' = cut \cup Tasks(s)
  /\ Unregisters(s)
  /\ UNCHANGED <<leaving, gone, connected, msg, queue, history>>

\* The ASGI server cancels serve: a handshake is dropped.
CancelGate(s) ==
  /\ leaving
  /\ serve[s] = "gate"
  /\ serve' = [serve EXCEPT ![s] = "over"]
  /\ UNCHANGED <<leaving, gone, connected, registry, msg, queue, cut, history>>

\* One more end of the reading; a pong under way is dropped.
CancelReading(s) ==
  /\ leaving
  /\ serve[s] \in {"reading", "ponging"}
  /\ serve' = [serve EXCEPT ![s] = "draining"]
  /\ msg' = [m \in Messages |-> IF m \in Tasks(s) /\ Kind[m] = "ping" THEN "done" ELSE msg[m]]
  /\ UNCHANGED <<leaving, gone, connected, registry, queue, cut, history>>

\* In the drain, which is itself in the finally of serve, the cancellation
\* skips both that of the tasks and the registry.
CancelDrain(s) ==
  /\ leaving
  /\ serve[s] = "draining"
  /\ Tasks(s) # {}
  /\ serve' = [serve EXCEPT ![s] = "over"]
  /\ torn' = torn \cup {s}
  /\ UNCHANGED <<leaving, gone, connected, registry, msg, queue, cut, newest, granted, overtaken, answered>>

-----------------------------------------------------------------------------
(* The task of a message. *)

\* The semaphore is first in, first out.
TakesSlot(m) ==
  /\ msg[m] = "waiting"
  /\ m \notin cut
  /\ queue[On[m]] # <<>>
  /\ Head(queue[On[m]]) = m
  /\ Cardinality(Running(On[m])) < MaxConcurrent
  /\ msg' = [msg EXCEPT ![m] = "running"]
  /\ queue' = [queue EXCEPT ![On[m]] = Tail(@)]
  /\ UNCHANGED <<leaving, serve, gone, connected, registry, cut, history>>

\* The page of an openchannel speaks on this socket from now on, whatever
\* became of the socket meanwhile.
Binds(m) ==
  LET p == PageOf[m]
  IN  /\ bound' = [bound EXCEPT ![p] = On[m]]
      /\ granted' = granted \cup {m}
      /\ overtaken' = IF m # newest[p] /\ bound[p] = On[newest[p]] /\ On[m] # bound[p]
                        THEN overtaken \cup {p} ELSE overtaken
      /\ UNCHANGED <<sockets, newest, answered, torn>>

\* The application answered 200, and the slot is free; the cleanups come next.
HandlerAnswers(m) ==
  /\ msg[m] = "running"
  /\ m \notin NeverReturns \cup cut
  /\ msg' = [msg EXCEPT ![m] = "cleaning"]
  /\ IF Kind[m] = "open" THEN Binds(m) ELSE UNCHANGED <<registry, history>>
  /\ UNCHANGED <<leaving, serve, gone, connected, queue, cut>>

\* It answered another status or raised, which is a 500: an answer all the same.
HandlerRaises(m) ==
  /\ msg[m] = "running"
  /\ m \notin NeverReturns \cup cut
  /\ msg' = [msg EXCEPT ![m] = "cleaning"]
  /\ UNCHANGED <<leaving, serve, gone, connected, registry, queue, cut, history>>

\* Out of the request registry; an answer is written when the message has an id
\* and the socket is connected.
Cleans(m) ==
  /\ msg[m] = "cleaning"
  /\ m \notin cut
  /\ msg' = [msg EXCEPT ![m] =
               IF Kind[m] # "event" /\ connected[On[m]] THEN "writing" ELSE "done"]
  /\ UNCHANGED <<leaving, serve, gone, connected, registry, queue, cut, history>>

Writes(m) ==
  /\ msg[m] = "writing"
  /\ Kind[m] # "ping"
  /\ m \notin cut
  /\ msg' = [msg EXCEPT ![m] = "done"]
  /\ answered' = IF On[m] \in gone THEN answered ELSE answered \cup {m}
  /\ UNCHANGED <<leaving, serve, gone, connected, registry, queue, cut, newest, granted, overtaken, torn>>

\* The cancellation reaches the task: out of the wait for a slot or out of the
\* application (or of the thread it waits for), through the cleanups, with no
\* answer. Every task of the connection goes, so nobody waits behind it.
CutEnds(m) ==
  /\ m \in cut
  /\ msg[m] \in InFlight
  /\ msg' = [msg EXCEPT ![m] = "done"]
  /\ UNCHANGED <<leaving, serve, gone, connected, registry, queue, cut, history>>

-----------------------------------------------------------------------------
Connection(s) ==
  \/ ClientLeaves(s) \/ Handshake(s) \/ GateOpens(s) \/ GateCloses(s)
  \/ ReadsDisconnect(s) \/ DrainEnds(s) \/ DrainTimesOut(s)
  \/ CancelGate(s) \/ CancelReading(s) \/ CancelDrain(s)

ServesMessage(m) ==
  \/ ReadsPing(m) \/ ReadsMessage(m) \/ Pongs(m)
  \/ TakesSlot(m) \/ HandlerAnswers(m) \/ HandlerRaises(m) \/ Cleans(m) \/ Writes(m) \/ CutEnds(m)

ConnectionsNext == Signal \/ (\E s \in Connections : Connection(s)) \/ (\E m \in Messages : ServesMessage(m))

\* The loop runs what is ready and timers fire; handlers that return do so.
\* Clients, handshakes and cancellations owe nothing.
ConnectionsFairness ==
  /\ \A s \in Connections : WF_connectionVars(ReadsDisconnect(s) \/ DrainEnds(s) \/ DrainTimesOut(s))
  /\ \A m \in Messages :
       WF_connectionVars(Pongs(m) \/ TakesSlot(m) \/ HandlerAnswers(m) \/ HandlerRaises(m)
                 \/ Cleans(m) \/ Writes(m) \/ CutEnds(m))

ConnectionsSpec == ConnectionsInit /\ [][ConnectionsNext]_connectionVars /\ ConnectionsFairness

-----------------------------------------------------------------------------
(* Properties. *)

\* Every variable has its type, and no connection runs more messages at once
\* than it has slots.
ConnectionsTypeOK ==
  /\ leaving \in BOOLEAN
  /\ serve \in [Connections -> {"new", "gate", "reading", "ponging", "draining", "over"}]
  /\ gone \subseteq Connections
  /\ connected \in [Connections -> BOOLEAN]
  /\ sockets \subseteq Connections
  /\ bound \in [Pages -> Connections \cup {none}]
  /\ msg \in [Messages -> InFlight \cup {"unsent", "done"}]
  /\ queue \in [Connections -> Seq(Messages)]
  /\ cut \subseteq Messages
  /\ newest \in [Pages -> Messages \cup {none}]
  /\ granted \subseteq Messages
  /\ overtaken \subseteq Pages
  /\ answered \subseteq Messages
  /\ torn \subseteq Connections
  /\ \A s \in Connections : Cardinality(Running(s)) <= MaxConcurrent

\* A page that was granted its channel on a live connection is reached on it,
\* whatever happens to the sockets it had before: a socket that ends takes only
\* the pages that still speak on it (websocket.py:316-345). Out of it are the
\* pages whose older openchannel was still in flight and came second.
PageIsReached ==
  \A p \in Pages :
    newest[p] \in granted /\ serve[On[newest[p]]] \in {"reading", "ponging"} =>
      bound[p] = On[newest[p]] \/ p \in overtaken

\* The same without exception: "a browser that lost its socket and opened a new
\* one says so again, and the association follows it" (websocket.py:340-342).
AssociationFollows ==
  \A p \in Pages :
    newest[p] \in granted /\ serve[On[newest[p]]] \in {"reading", "ponging"} =>
      bound[p] = On[newest[p]]

\* The registry and the associations agree: a page is bound to a registered
\* socket, and one that stays registered after its connection is over was
\* cancelled in its drain (wsx.py:234-248, 340-346).
BoundIsRegistered ==
  /\ \A p \in Pages : bound[p] \in sockets \cup {none}
  /\ \A s \in sockets : serve[s] \in {"new", "gate", "over"} => s \in torn

\* The association of a page is the right one: both together.
AssociationHolds == ConnectionsTypeOK /\ PageIsReached /\ BoundIsRegistered

\* What is owed an answer: a ping, even with every slot taken, and a message
\* with an id on a connection whose endless handlers leave a slot.
Answerable ==
  {m \in Messages : \/ Kind[m] = "ping"
                    \/ /\ Kind[m] # "event"
                       /\ m \notin NeverReturns
                       /\ Cardinality(NeverReturns \cap Of(On[m])) < MaxConcurrent}

\* A message that was read is answered unless its client left or the server
\* ended its connection (wsx.py:309-368).
RequestsAnswered ==
  \A m \in Answerable :
    msg[m] # "unsent" ~> (m \in answered \/ On[m] \in gone \/ leaving)

\* A connection whose client left comes to its end and so does every message
\* of it, endless ones too, unless it was cancelled in its drain
\* (wsx.py:340-346, docs/guides/websockets.md).
ConnectionEnds ==
  \A s \in Connections :
    (s \in gone /\ serve[s] = "reading") ~>
      (s \in torn \/ (serve[s] = "over" /\ Tasks(s) = {}))
=============================================================================
