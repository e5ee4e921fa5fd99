CONSTANTS
  None = None
  alice = alice
  old = old
  new = new
  t1 = t1
  t2 = t2
  Identities <- MCIdentities
  Tasks <- MCTasks
  Passwords <- MCPasswords
  Bodies <- AccountBodies
  MaxAttempts = 2
  Backoff = 1
  MaxNow = 3
  MaxCalls = 4
  MaxCrashes = 1
SYMMETRY ThreadSymmetry
SPECIFICATION AccountsSpec
INVARIANTS AccountsHold
PROPERTIES AuthenticatedWasValid LostUpdateNeedsOverlap
CHECK_DEADLOCK FALSE
