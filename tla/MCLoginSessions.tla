-------------------------- MODULE MCLoginSessions --------------------------
(* Two browsers, one with a session from before, and two requests in progress. *)
EXTENDS LoginSessions, TLC

CONSTANTS b1, b2, r1, r2

MCBrowsers == {b1, b2}
MCRequests == {r1, r2}
MCRestored == <<b1>>
Symmetry == Permutations(MCRequests)
=============================================================================
