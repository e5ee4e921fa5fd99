--------------------------- MODULE BatchLifecycle ---------------------------
(***************************************************************************)
(* What the batch spool promises of a task id, with no word about folders, *)
(* files, threads or restarts: an id is submitted once, claimed once,      *)
(* finished once, and nothing but housekeeping touches it afterwards.      *)
(* Housekeeping may take it at any stage, and then it does not come back.  *)
(* A relaunch is a new id, so no state is ever entered twice.              *)
(***************************************************************************)

CONSTANT Tasks

VARIABLE stage      \* stage[t]: where the life of t has got to

Terminal == {"terminated", "aborted"}
Stages   == {"absent", "pending", "active", "gone"} \cup Terminal

TypeOK == stage \in [Tasks -> Stages]

Init == stage = [t \in Tasks |-> "absent"]

Move(t, from, to) ==
  /\ stage[t] = from
  /\ stage' = [stage EXCEPT ![t] = to]

Submit(t) == Move(t, "absent", "pending")
Claim(t)  == Move(t, "pending", "active")
Finish(t) == \E to \in Terminal : Move(t, "active", to)
Purge(t)  == \E from \in {"pending", "active"} \cup Terminal : Move(t, from, "gone")

Next == \E t \in Tasks : Submit(t) \/ Claim(t) \/ Finish(t) \/ Purge(t)

Spec == Init /\ [][Next]_stage
=============================================================================
