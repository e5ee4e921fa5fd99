------------------------ MODULE MCServerLifecycle ------------------------
(* One call of each origin: an async request, a message whose synchronous *)
(* handler nests, a synchronous batch. *)
EXTENDS ServerLifecycle, TLC

CONSTANTS page, note, batch

OneOfEach == (page :> "http") @@ (note :> "message") @@ (batch :> "task")
=============================================================================
