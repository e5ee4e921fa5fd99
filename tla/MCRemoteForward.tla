-------------------------- MODULE MCRemoteForward --------------------------
(* An endless answer, a WSK message whose handler makes a call that comes   *)
(* back to its own mount, and that call; a socket next to the endless       *)
(* answer: both end with the process. *)
EXTENDS WebsocketRelay, TLC

CONSTANTS endless, message, inner, socket

Caller == (endless :> NoCall) @@ (message :> NoCall) @@ (inner :> message)
=============================================================================
