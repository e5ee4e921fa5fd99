(* Two batches, two lives of the process: one crash or stop at any point. *)
SPECIFICATION Spec
CONSTANTS
  Tasks = {t1, t2}
  Attended = {t1}
  MaxVisits = 1
  MaxLives = 2
INVARIANT RunsOnce
PROPERTIES FolderTells ImplementsLifecycle NoneIsForgotten
CHECK_DEADLOCK FALSE
