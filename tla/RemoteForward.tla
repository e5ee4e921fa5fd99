--------------------------- MODULE RemoteForward ---------------------------
(***************************************************************************)
(* The requests a mount forwards to the process of an external application *)
(* (remote_application.py), and what that process does to answer them      *)
(* (kbus_mixin.py, asgi_endpoint.py): admission, the deadline on the first *)
(* message, the relay of the answer over a stream of the bus, and the ways *)
(* it ends on either side.                                                 *)
(*                                                                         *)
(* Both sides are event loops; an action is what one of them does between  *)
(* two awaits. The stream is a library's (kbus): messages arrive in order, *)
(* a sender waits for room in the window, a side that leaves the stream    *)
(* before both closed it aborts it, and a process that ends loses it.      *)
(***************************************************************************)
EXTENDS Naturals, Sequences, FiniteSets

CONSTANTS
  Calls,       \* the requests, each forwarded once
  Wsk,         \* those of method WSK: buffered in the process, never watched
  Endless,     \* those whose application streams until it is stopped
  CalledBy,    \* CalledBy[d]: the call whose application awaits d, or NoCall
  NoCall,
  MaxCalls,    \* max_calls
  Window,      \* the messages a stream holds
  MaxDeaths    \* bound: how often the process ends

ASSUME CallsAssumption == IsFiniteSet(Calls) /\ Wsk \subseteq Calls /\ Endless \subseteq Calls \ Wsk
ASSUME CalledAssumption == NoCall \notin Calls /\ CalledBy \in [Calls -> Calls \cup {NoCall}]
ASSUME SizesAssumption == MaxCalls \in Nat \ {0} /\ Window \in Nat \ {0} /\ MaxDeaths \in Nat

VARIABLES
  joined,   \* a process of the application is in kbus_pids
  deaths,
  free,     \* the permits of _slots
  line,     \* the calls that wait for one, first come first served
  at,       \* where _forward of a call is
  held,     \* its variable of that name
  left,     \* the calls whose client is gone
  starts,   \* how many times a call wrote http.response.start
  answer,   \* what its client has: "none", "partial", the "whole" of what was
            \* relayed, or an answer of the mount's "own"
  stream,   \* the stream of a call
  wire,     \* the messages under way to the mount
  app,      \* where the call is in the process
  finished  \* history: the calls whose application sent its last body

vars == <<joined, deaths, free, line, at, held, left, starts, answer, stream, wire, app, finished>>
slots == <<free, line, held>>
client == <<left, starts, answer>>
process == <<joined, deaths>>
remote == <<app, finished>>

\* Under the deadline; "refusing": a 413 is being written.
Waiting == {"line", "body", "refusing", "opened"}
\* Registered in the process and not unregistered yet.
Serving == {"serving", "started", "last", "closed"}

Init ==
  /\ joined = TRUE /\ deaths = 0
  /\ free = MaxCalls /\ line = <<>>
  /\ at = [c \in Calls |-> "new"]
  /\ held = [c \in Calls |-> FALSE]
  /\ left = {}
  /\ starts = [c \in Calls |-> 0] /\ answer = [c \in Calls |-> "none"]
  /\ stream = [c \in Calls |-> "none"]
  /\ wire = [c \in Calls |-> <<>>]
  /\ app = [c \in Calls |-> "none"] /\ finished = {}

-----------------------------------------------------------------------------
(* The mount: admission and the deadline.                                  *)

\* A client's request; or one an application makes while it is being served.
Arrives(c) ==
  /\ at[c] = "new"
  /\ CalledBy[c] # NoCall => app[CalledBy[c]] = "serving"
  /\ at' = [at EXCEPT ![c] = "line"]
  /\ line' = Append(line, c)
  /\ UNCHANGED <<process, free, held, client, stream, wire, remote>>

Admitted(c) ==
  /\ at[c] = "line" /\ line # <<>> /\ Head(line) = c
  /\ free > 0
  /\ free' = free - 1 /\ line' = Tail(line)
  /\ held' = [held EXCEPT ![c] = TRUE]
  /\ at' = [at EXCEPT ![c] = "body"]
  /\ UNCHANGED <<process, client, stream, wire, remote>>

\* A call waits once: the line without it.
Without(c) ==
  LET places == {i \in DOMAIN line : line[i] = c}
      i == CHOOSE j \in places : TRUE
  IN IF places = {} THEN line ELSE SubSeq(line, 1, i - 1) \o SubSeq(line, i + 1, Len(line))

\* The finally of _forward; the semaphore forgets a waiter that is cancelled.
Releases(c) ==
  /\ free' = IF held[c] THEN free + 1 ELSE free
  /\ held' = [held EXCEPT ![c] = FALSE]
  /\ line' = Without(c)

\* The end of a call: its slot is given back, and a stream that is left open
\* is aborted, with what was under way on it.
Ends(c) ==
  /\ at' = [at EXCEPT ![c] = "over"]
  /\ Releases(c)
  /\ wire' = [wire EXCEPT ![c] = <<>>]
  /\ stream' = [stream EXCEPT ![c] = IF @ = "open" THEN "aborted" ELSE @]

Has(c, what) == answer' = [answer EXCEPT ![c] = what]

WritesStart(c) == starts' = [starts EXCEPT ![c] = @ + 1]

\* _send_local_response: a whole answer of the mount's own.
AnswersItself(c) == WritesStart(c) /\ Has(c, "own")

\* The client leaves while its body is read.
GoneInBody(c) ==
  /\ at[c] = "body" /\ c \in left
  /\ Ends(c)
  /\ UNCHANGED <<process, client, remote>>

\* A body over the limit: the 413 is written under the deadline too.
TooLarge(c) ==
  /\ at[c] = "body"
  /\ at' = [at EXCEPT ![c] = "refusing"]
  /\ WritesStart(c)
  /\ UNCHANGED <<process, slots, left, answer, stream, wire, remote>>

Refused(c) ==
  /\ at[c] = "refusing"
  /\ Ends(c) /\ Has(c, "own")
  /\ UNCHANGED <<process, left, starts, remote>>

\* open_external.
CanOpen == joined

\* The whole body is read: the stream is opened with the record of the request.
OpensStream(c) ==
  /\ at[c] = "body" /\ CanOpen
  /\ at' = [at EXCEPT ![c] = "opened"]
  /\ stream' = [stream EXCEPT ![c] = "open"]
  /\ UNCHANGED <<process, slots, client, wire, remote>>

\* NoSuchMember: 503; or the record is over max_frame: 413, out of the deadline.
NotOpened(c) ==
  /\ at[c] = "body"
  /\ Ends(c) /\ AnswersItself(c)
  /\ UNCHANGED <<process, left, remote>>

\* Wrong: the deadline bounds the first message only, not the wait for a slot.
TimesOutOnHead(c) ==
  /\ at[c] = "opened"
  /\ Ends(c) /\ AnswersItself(c)
  /\ UNCHANGED <<process, left, remote>>

\* TimeoutError: 503.
TimesOut(c) ==
  /\ at[c] \in Waiting
  /\ Ends(c) /\ AnswersItself(c)
  /\ UNCHANGED <<process, left, remote>>

-----------------------------------------------------------------------------
(* The mount: the answer.                                                  *)

\* The first message: the deadline is lifted, the slot given back.
HeadArrives(c) ==
  /\ at[c] = "opened" /\ wire[c] # <<>> /\ Head(wire[c]) = "head"
  /\ at' = [at EXCEPT ![c] = "relay"]
  /\ wire' = [wire EXCEPT ![c] = Tail(@)]
  /\ Releases(c)
  /\ WritesStart(c) /\ Has(c, "partial")
  /\ UNCHANGED <<process, left, stream, remote>>

\* The exception of the application is raised here: this process answers it.
FailureArrives(c) ==
  /\ at[c] = "opened" /\ wire[c] # <<>> /\ Head(wire[c]) = "failure"
  /\ Ends(c) /\ AnswersItself(c)
  /\ UNCHANGED <<process, left, remote>>

\* Aborted or lost before its first message: 503.
FailsBeforeHead(c) ==
  /\ at[c] = "opened" /\ stream[c] # "open"
  /\ Ends(c) /\ AnswersItself(c)
  /\ UNCHANGED <<process, left, remote>>

\* The task `forward`: one body per message, with the more_body it carries.
Relays(c) ==
  /\ at[c] = "relay" /\ wire[c] # <<>>
  /\ wire' = [wire EXCEPT ![c] = Tail(@)]
  /\ IF Head(wire[c]) = "last" THEN Has(c, "whole") ELSE UNCHANGED answer
  /\ UNCHANGED <<process, at, slots, left, starts, stream, remote>>

\* The process closed its direction: so does the mount.
Completes(c) ==
  /\ at[c] = "relay" /\ wire[c] = <<>> /\ app[c] = "closed" /\ stream[c] = "open"
  /\ at' = [at EXCEPT ![c] = "over"]
  /\ stream' = [stream EXCEPT ![c] = "closed"]
  /\ UNCHANGED <<process, slots, client, wire, remote>>

\* Wrong: an answer that stops is closed as one that is complete.
EndsAnyway(c) ==
  /\ at[c] = "relay" /\ stream[c] \in {"aborted", "lost"}
  /\ Ends(c) /\ Has(c, "whole")
  /\ UNCHANGED <<process, left, starts, remote>>

\* A kbus error under `forward`, which may overtake messages that arrived: the
\* answer ends without its terminal body.
StreamFails(c) ==
  /\ at[c] = "relay" /\ stream[c] \in {"aborted", "lost"}
  /\ Ends(c)
  /\ UNCHANGED <<process, client, remote>>

\* Wrong: the stream is closed, not aborted, and nobody tells the application.
ClosesOnLeave(c) ==
  /\ at[c] = "relay" /\ c \in left \ Wsk
  /\ at' = [at EXCEPT ![c] = "over"]
  /\ UNCHANGED <<process, slots, client, stream, wire, remote>>

\* The task client_left: the stream is aborted. A WSK call has none.
ClientLeft(c) ==
  /\ at[c] = "relay" /\ c \in left \ Wsk
  /\ Ends(c)
  /\ UNCHANGED <<process, client, remote>>

\* The ASGI server, or a middleware, cancels the task of the call.
Cancelled(c) ==
  /\ at[c] \in Waiting \cup {"relay"} /\ CalledBy[c] = NoCall
  /\ Ends(c)
  /\ UNCHANGED <<process, client, remote>>

-----------------------------------------------------------------------------
(* The process. A call that an application makes is over before it answers. *)

Served(c) ==
  /\ app[c] = "none" /\ stream[c] \in {"open", "aborted"} /\ joined
  /\ app' = [app EXCEPT ![c] = "serving"]
  /\ UNCHANGED <<process, slots, at, client, stream, wire, finished>>

Sends(c, message) ==
  /\ stream[c] = "open" /\ Len(wire[c]) < Window
  /\ wire' = [wire EXCEPT ![c] = Append(@, message)]
  /\ UNCHANGED <<process, slots, at, client, stream>>

Starts(c) ==
  /\ app[c] = "serving"
  /\ \A d \in Calls : CalledBy[d] = c => at[d] \in {"new", "over"}
  /\ Sends(c, "head")
  /\ app' = [app EXCEPT ![c] = "started"]
  /\ UNCHANGED finished

AppStarts(c) == c \notin Wsk /\ Starts(c)

\* BufferedAsgiEndpoint: the answer to a WSK starts when all of it is there.
BufferedStarts(c) == c \in Wsk /\ Starts(c)

\* A call of an application has its answer buffered too.
AppStreams(c) ==
  /\ app[c] = "started" /\ c \notin Wsk /\ CalledBy[c] = NoCall
  /\ Sends(c, "chunk")
  /\ UNCHANGED remote

AppSendsLast(c) ==
  /\ app[c] = "started" /\ c \notin Endless
  /\ Sends(c, "last")
  /\ app' = [app EXCEPT ![c] = "last"]
  /\ finished' = finished \cup {c}

\* An exception before the start travels as one message.
AppFailsEarly(c) ==
  /\ app[c] = "serving"
  /\ Sends(c, "failure")
  /\ app' = [app EXCEPT ![c] = "last"]
  /\ UNCHANGED finished

\* stream.close()
AppCloses(c) ==
  /\ app[c] = "last" /\ stream[c] = "open"
  /\ app' = [app EXCEPT ![c] = "closed"]
  /\ UNCHANGED <<process, slots, at, client, stream, wire, finished>>

\* Wrong: an answer that fails after its start is closed like any other.
AppFailsQuietly(c) ==
  /\ app[c] = "started" /\ c \notin Wsk /\ Len(wire[c]) < Window
  /\ app' = [app EXCEPT ![c] = "last"]
  /\ wire' = [wire EXCEPT ![c] = Append(@, "last")]
  /\ UNCHANGED <<process, slots, at, client, stream, finished>>

\* A failure after the start, or a return with the body unfinished.
AppFailsLate(c) ==
  /\ app[c] = "started" /\ c \notin Wsk
  /\ app' = [app EXCEPT ![c] = "over"]
  /\ stream' = [stream EXCEPT ![c] = IF @ = "open" THEN "aborted" ELSE @]
  /\ UNCHANGED <<process, slots, at, client, wire, finished>>

\* The abort: the task `watch` cancels the application. A buffered answer is
\* not watched, and fails when it is sent.
Stopped(c) ==
  /\ app[c] \in {"serving", "started", "last"} /\ stream[c] = "aborted"
  /\ app' = [app EXCEPT ![c] = "over"]
  /\ UNCHANGED <<process, slots, at, client, stream, wire, finished>>

\* Closed here, it waits for the other direction.
Drained(c) ==
  /\ app[c] = "closed" /\ stream[c] \in {"closed", "aborted"}
  /\ app' = [app EXCEPT ![c] = "over"]
  /\ UNCHANGED <<process, slots, at, client, stream, wire, finished>>

Dies ==
  /\ joined /\ deaths < MaxDeaths
  /\ joined' = FALSE /\ deaths' = deaths + 1
  /\ app' = [c \in Calls |-> IF stream[c] # "none" THEN "over" ELSE app[c]]
  /\ stream' = [c \in Calls |-> IF stream[c] = "open" THEN "lost" ELSE stream[c]]
  /\ UNCHANGED <<slots, at, client, wire, finished>>

\* The spawner started another, which joined.
Rejoins ==
  /\ ~joined /\ joined' = TRUE
  /\ UNCHANGED <<deaths, slots, at, client, stream, wire, remote>>

\* The caller of a call from the bus is gone when it has the answer.
Leaves(c) ==
  /\ at[c] \notin {"new", "over"} /\ c \notin left
  /\ CalledBy[c] # NoCall => answer[c] = "whole"
  /\ left' = left \cup {c}
  /\ UNCHANGED <<process, slots, at, starts, answer, stream, wire, remote>>

-----------------------------------------------------------------------------
AtMount(c) ==
  \/ Arrives(c) \/ Admitted(c) \/ GoneInBody(c) \/ TooLarge(c) \/ Refused(c)
  \/ OpensStream(c) \/ NotOpened(c) \/ TimesOut(c)
  \/ HeadArrives(c) \/ FailureArrives(c) \/ FailsBeforeHead(c)
  \/ Relays(c) \/ Completes(c) \/ StreamFails(c) \/ ClientLeft(c) \/ Cancelled(c)

InProcess(c) ==
  \/ Served(c) \/ AppStarts(c) \/ BufferedStarts(c) \/ AppStreams(c) \/ AppSendsLast(c)
  \/ AppFailsEarly(c) \/ AppCloses(c) \/ AppFailsLate(c) \/ Stopped(c) \/ Drained(c)

Next ==
  \/ \E c \in Calls : AtMount(c) \/ InProcess(c) \/ Leaves(c)
  \/ Dies \/ Rejoins

\* The timer of the deadline fires, the tasks of a relay and of an aborted
\* stream get to run. Nothing is asked of clients, of the process or of the
\* application; a WSK handler is not told, so it may go on.
Fairness ==
  \A c \in Calls :
    /\ WF_vars(TimesOut(c))
    /\ WF_vars(ClientLeft(c)) /\ WF_vars(Drained(c))
    /\ c \notin Wsk => WF_vars(Stopped(c))

Spec == Init /\ [][Next]_vars /\ Fairness

-----------------------------------------------------------------------------
(* Properties. *)

TypeOK ==
  /\ joined \in BOOLEAN /\ deaths \in 0 .. MaxDeaths
  /\ free \in 0 .. MaxCalls
  /\ line \in Seq(Calls)
  /\ at \in [Calls -> Waiting \cup {"new", "relay", "over"}]
  /\ held \in [Calls -> BOOLEAN]
  /\ left \subseteq Calls
  /\ starts \in [Calls -> Nat]
  /\ answer \in [Calls -> {"none", "partial", "whole", "own"}]
  /\ stream \in [Calls -> {"none", "open", "closed", "aborted", "lost"}]
  /\ wire \in [Calls -> Seq({"head", "failure", "chunk", "last"})]
  /\ app \in [Calls -> Serving \cup {"none", "over"}]
  /\ finished \subseteq Calls

\* A slot is given back once, whatever way a call ends, and is held by the
\* calls that read their body or wait for their first message and by no other:
\* at most max_calls of them, and a long answer holds none
\* (remote_application.py:201-264, docs/design/kbus-protocol.md:201).
SlotsBalance ==
  /\ free + Cardinality({c \in Calls : held[c]}) = MaxCalls
  /\ \A c \in Calls : held[c] <=> at[c] \in Waiting \ {"line"}

\* An answer that stopped halfway, because the application failed, the process
\* died or the stream was lost, never looks complete: its terminal body was
\* sent by the application (remote_application.py:270-315, kbus_mixin.py:600-671).
NeverTruncated ==
  \A c \in Calls : answer[c] = "whole" => c \in finished

\* An answer that started is not followed by another: neither the deadline nor
\* a failure of the stream answers a call whose first message was relayed.
StartsOnce ==
  \A c \in Calls : stream[c] # "none" => starts[c] <= 1

\* A call has one slot and one answer, whole or told to be cut.
OneSlotOneAnswer == TypeOK /\ SlotsBalance /\ NeverTruncated /\ StartsOnce

\* The same of every call: "a body over the policy ceiling [...] answers 413"
\* (remote_application.py:174).
OneAnswer == \A c \in Calls : starts[c] <= 1

\* Whatever the process does, and though the applications that hold the slots
\* may themselves wait for a slot, a call gets its first message or an answer
\* of the mount's own (remote_application.py:201-210).
AnsweredInTime ==
  \A c \in Calls : at[c] \in Waiting ~> at[c] \in {"relay", "over"}

\* A client that leaves, a deadline and a cancellation reach the application
\* in the other process: a call that is over there is over here, an endless
\* one too (remote_application.py:289-315, kbus_mixin.py:653-671).
LeavingIsTold ==
  \A c \in Calls \ Wsk :
    /\ (at[c] = "relay" /\ c \in left) ~> at[c] = "over"
    /\ at[c] = "over" ~> app[c] \notin Serving
=============================================================================
