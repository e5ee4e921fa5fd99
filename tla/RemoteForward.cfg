(* One slot for three calls, or one call and a socket; a window of one
   message, one death. *)
SPECIFICATION RelaySpec
CONSTANTS
  endless = endless
  message = message
  inner = inner
  socket = socket
  NoCall = none
  Calls = {endless, message, inner}
  Wsk = {message}
  Endless = {endless}
  CalledBy <- Caller
  MaxCalls = 1
  Window = 1
  MaxDeaths = 1
  Sockets = {socket}
  Loads = {{endless, message, inner}, {endless, socket}}
INVARIANTS AnsweredOnce
PROPERTIES AnsweredInTime GoneIsTold
CHECK_DEADLOCK FALSE
