(* A declared schedule with a code default, and an orphan an operator makes. *)
SPECIFICATION Spec
CONSTANTS
  Codes = {nightly, extra}
  Declared = {nightly}
  Defaults = {nightly}
  nightly = nightly
  extra = extra
  cleanup = cleanup
  report = report
  TaskOf <- OwnTasks
  Callers = {w1}
  LogCap = 2
  MaxTime = 1
  MaxEvents = 2
INVARIANTS GuardIsRight
PROPERTIES LogKeepsLines DueIsFired
CHECK_DEADLOCK FALSE
