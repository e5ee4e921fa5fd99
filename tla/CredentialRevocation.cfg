SPECIFICATION Spec
CONSTANTS
  Server = server
  NoPid = none
  NoKey = nokey
  Pids = {p1, p2}
  Keys = {k1}
  Expires <- ExpiresSoon
  TTL = 2
  Requests = {r1, r2}
  MaxTime = 1
INVARIANTS OnlyValidIsAccepted
PROPERTIES WithdrawalEnds
CHECK_DEADLOCK FALSE
