--------------------------- MODULE WebsocketRelay ---------------------------
(***************************************************************************)
(* The websockets a mount carries to the process of an external            *)
(* application, next to the requests of RemoteForward: both end with the   *)
(* same process. The mount reads the client in a task of its own and the   *)
(* process in the task of the socket (remote_application.py,               *)
(* _forward_websocket); the process runs serve_websocket on the stream     *)
(* (kbus_mixin.py, _serve_websocket_stream).                               *)
(***************************************************************************)
EXTENDS RemoteForward

CONSTANTS
  Sockets,
  Loads        \* the sets of calls and sockets that come together

ASSUME LoadsAssumption == Loads \subseteq SUBSET (Calls \cup Sockets)

VARIABLES load, sock

relayVars == <<vars, load, sock>>

(* A socket: the frame of its mount and the task to_application, its stream *)
(* with the events under way, the application, the client and what ended it. *)
NewSocket ==
  [mount |-> "new", reader |-> "none", link |-> "none", up |-> <<>>, down |-> <<>>,
   app |-> "none", client |-> "here", closed |-> FALSE, got |-> "nothing"]

RelayInit == Init /\ load \in Loads /\ sock = [s \in Sockets |-> NewSocket]

SocketStep == UNCHANGED <<vars, load>>

\* The end of the frame, by an error: the stream is aborted if it is open.
Broken(s) ==
  [sock[s] EXCEPT !.mount = "over", !.down = <<>>, !.link = IF @ = "open" THEN "aborted" ELSE @]

-----------------------------------------------------------------------------
(* The mount. *)

\* The record of the handshake opens the stream; nothing was accepted yet.
OpensSocket(s) ==
  /\ s \in load /\ sock[s].mount = "new" /\ CanOpen
  /\ sock' = [sock EXCEPT ![s].mount = "carrying", ![s].reader = "reading", ![s].link = "open"]
  /\ SocketStep

\* NoSuchMember, or a handshake over max_frame: 1011.
Unreachable(s) ==
  /\ s \in load /\ sock[s].mount = "new"
  /\ sock' = [sock EXCEPT ![s].mount = "over", ![s].got = "1011"]
  /\ SocketStep

Reads(s) ==
  /\ sock[s].mount = "carrying" /\ sock[s].reader = "reading" /\ sock[s].link = "open"
  /\ Len(sock[s].up) < Window

ForwardsEvent(s) ==
  /\ Reads(s) /\ sock[s].client = "here"
  /\ sock' = [sock EXCEPT ![s].up = Append(@, "event")]
  /\ SocketStep

\* websocket.disconnect crosses, then this direction closes: client_open is false.
ForwardsLeave(s) ==
  /\ Reads(s) /\ sock[s].client = "gone"
  /\ sock' = [sock EXCEPT ![s].up = Append(@, "disconnect"), ![s].reader = "left"]
  /\ SocketStep

\* The send of an event over max_frame fails: the task returns and no event is
\* read any more, while the stream stays open.
StopsReading(s) ==
  /\ Reads(s) /\ sock[s].client = "here"
  /\ sock' = [sock EXCEPT ![s].reader = "stopped"]
  /\ SocketStep

Carries(s) ==
  /\ sock[s].mount = "carrying" /\ sock[s].down # <<>>
  /\ LET close == Head(sock[s].down) = "close"
     IN  sock' = [sock EXCEPT ![s].down = Tail(@), ![s].closed = @ \/ close,
                              ![s].got = IF close THEN "close" ELSE @]
  /\ SocketStep

\* The send to a client that left raises in the ASGI server.
SendFails(s) ==
  /\ sock[s].mount = "carrying" /\ sock[s].down # <<>> /\ sock[s].client = "gone"
  /\ sock' = [sock EXCEPT ![s] = Broken(s)]
  /\ SocketStep

\* The process closed its direction: so does the mount, and stops reading.
EndsCleanly(s) ==
  /\ sock[s].mount = "carrying" /\ sock[s].down = <<>> /\ sock[s].link = "open"
  /\ sock[s].app = "draining"
  /\ sock' = [sock EXCEPT ![s].mount = "over", ![s].link = "closed"]
  /\ SocketStep

\* kbus.Error, which may overtake events that arrived: 1011, unless the client
\* is known to be gone or had the close of the application.
Breaks(s) ==
  /\ sock[s].mount = "carrying" /\ sock[s].link \in {"aborted", "lost"}
  /\ LET tell == sock[s].reader # "left" /\ ~sock[s].closed
     IN  sock' = [sock EXCEPT ![s] = [Broken(s) EXCEPT !.got = IF tell THEN "1011" ELSE @]]
  /\ SocketStep

SocketCancelled(s) ==
  /\ sock[s].mount = "carrying"
  /\ sock' = [sock EXCEPT ![s] = [Broken(s) EXCEPT !.mount = "cancelled"]]
  /\ SocketStep

ClientGoes(s) ==
  /\ sock[s].mount = "carrying" /\ sock[s].client = "here"
  /\ sock' = [sock EXCEPT ![s].client = "gone"]
  /\ SocketStep

-----------------------------------------------------------------------------
(* The process. An application that was told of the end, or closed the      *)
(* socket itself, is "ending": it only has to return.                       *)

SocketServed(s) ==
  /\ sock[s].app = "none" /\ sock[s].link = "open"
  /\ sock' = [sock EXCEPT ![s].app = "serving"]
  /\ SocketStep

\* receive(): an event of the client, or the 1006 of a stream that failed.
Receives(s) ==
  /\ sock[s].app = "serving"
  /\ \/ /\ sock[s].link = "open" /\ sock[s].up # <<>>
        /\ sock' = [sock EXCEPT ![s].up = Tail(@),
                                ![s].app = IF Head(sock[s].up) = "event" THEN @ ELSE "ending"]
     \/ /\ sock[s].link = "aborted"
        /\ sock' = [sock EXCEPT ![s].app = "ending"]
  /\ SocketStep

SendsEvent(s) ==
  /\ sock[s].app = "serving" /\ sock[s].link = "open" /\ Len(sock[s].down) < Window
  /\ \E event \in {"event", "close"} :
       sock' = [sock EXCEPT ![s].down = Append(@, event),
                            ![s].app = IF event = "close" THEN "ending" ELSE @]
  /\ SocketStep

\* It returns: its direction closes and the other is drained.
Returns(s) ==
  /\ sock[s].app \in {"serving", "ending"}
  /\ sock' = [sock EXCEPT ![s].app = IF sock[s].link = "open" THEN "draining" ELSE "over"]
  /\ SocketStep

ReturnsWhenEnding(s) == sock[s].app = "ending" /\ Returns(s)

AppRaises(s) ==
  /\ sock[s].app \in {"serving", "ending"}
  /\ sock' = [sock EXCEPT ![s].app = "over", ![s].link = IF @ = "open" THEN "aborted" ELSE @]
  /\ SocketStep

SocketDrained(s) ==
  /\ sock[s].app = "draining" /\ sock[s].link # "open"
  /\ sock' = [sock EXCEPT ![s].app = "over"]
  /\ SocketStep

\* The streams of the sockets go with the process too.
EndsSockets ==
  /\ Dies
  /\ sock' = [s \in Sockets |->
       [sock[s] EXCEPT !.link = IF @ = "open" THEN "lost" ELSE @,
                       !.app = IF @ = "none" /\ sock[s].link # "open" THEN @ ELSE "over"]]
  /\ UNCHANGED load

-----------------------------------------------------------------------------
SocketNext(s) ==
  \/ OpensSocket(s) \/ Unreachable(s) \/ ForwardsEvent(s) \/ ForwardsLeave(s) \/ StopsReading(s)
  \/ Carries(s) \/ SendFails(s) \/ EndsCleanly(s) \/ Breaks(s) \/ SocketCancelled(s)
  \/ ClientGoes(s)
  \/ SocketServed(s) \/ Receives(s) \/ SendsEvent(s) \/ Returns(s) \/ AppRaises(s)
  \/ SocketDrained(s)

RelayNext ==
  \/ \E c \in Calls \cap load : (AtMount(c) \/ InProcess(c) \/ Leaves(c)) /\ UNCHANGED <<load, sock>>
  \/ \E s \in Sockets : SocketNext(s)
  \/ EndsSockets
  \/ Rejoins /\ UNCHANGED <<load, sock>>

\* The tasks of a relay get to run; an application reads its events, and
\* returns when it is told that the socket ended.
RelayFairness ==
  /\ Fairness
  /\ \A s \in Sockets :
       /\ WF_relayVars(ForwardsLeave(s)) /\ WF_relayVars(Carries(s))
       /\ WF_relayVars(EndsCleanly(s)) /\ WF_relayVars(Breaks(s))
       /\ WF_relayVars(SocketServed(s)) /\ WF_relayVars(Receives(s))
       /\ WF_relayVars(ReturnsWhenEnding(s)) /\ WF_relayVars(SocketDrained(s))

RelaySpec == RelayInit /\ [][RelayNext]_relayVars /\ RelayFairness

-----------------------------------------------------------------------------
(* Properties. *)

SocketTypeOK ==
  sock \in [Sockets ->
    [mount : {"new", "carrying", "over", "cancelled"},
     reader : {"none", "reading", "left", "stopped"},
     link : {"none", "open", "closed", "aborted", "lost"},
     up : Seq({"event", "disconnect"}), down : Seq({"event", "close"}),
     app : {"none", "serving", "ending", "draining", "over"},
     client : {"here", "gone"}, closed : BOOLEAN, got : {"nothing", "close", "1011"}]]

\* A client that is still there learns how its socket ended: by the close of
\* the application, by 1011 when the process had not joined, died or failed,
\* by the end the ASGI server gives it when the application returned; and an
\* end the application announced is not announced a second time
\* (remote_application.py:317-363, docs/design/kbus-protocol.md:157).
SocketsTold ==
  \A s \in Sockets :
    /\ sock[s].mount = "over" /\ sock[s].client = "here" =>
         sock[s].got # "nothing" \/ sock[s].link = "closed"
    /\ sock[s].closed => sock[s].got = "close"

\* Requests and sockets: one answer, one end, however the process ends.
AnsweredOnce == OneSlotOneAnswer /\ SocketTypeOK /\ SocketsTold

\* A client that leaves ends its socket on both sides, and a stream that broke
\* ends it at the mount: no socket outlives its client or its process. Not one
\* whose reading stopped: see StopsReading.
SocketsEnd ==
  \A s \in Sockets :
    /\ (sock[s].client = "gone" /\ sock[s].reader = "reading") ~>
         (sock[s].mount \in {"over", "cancelled"} /\ sock[s].app \in {"none", "over"})
    /\ (sock[s].mount = "carrying" /\ sock[s].link \in {"aborted", "lost"}) ~>
         sock[s].mount \in {"over", "cancelled"}

\* Requests and sockets: whoever leaves is told to the application.
GoneIsTold == LeavingIsTold /\ SocketsEnd
=============================================================================
