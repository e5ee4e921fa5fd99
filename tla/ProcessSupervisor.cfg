(* Three events, backoff 1 and 2. *)
SPECIFICATION Spec
CONSTANTS
  Interval = 1
  Ceiling = 2
  Reset = 2
  MaxEvents = 3
  MaxPids = 5
INVARIANTS OneLife StopLeavesNothing
PROPERTIES RelaunchIsFair RoleLives
CHECK_DEADLOCK FALSE
