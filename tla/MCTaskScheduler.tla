--------------------------- MODULE MCTaskScheduler ---------------------------
(***************************************************************************)
(* Instances of TaskScheduler: a schedule with a code default, and beside  *)
(* it one an operator made, of a task no route declares.                   *)
(***************************************************************************)
EXTENDS TaskScheduler, TLC

CONSTANTS nightly, extra, cleanup, report

OneTask == nightly :> cleanup

OwnTasks == nightly :> cleanup @@ extra :> report
=============================================================================
