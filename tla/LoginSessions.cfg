CONSTANTS
  None = None
  b1 = b1
  b2 = b2
  r1 = r1
  r2 = r2
  Browsers <- MCBrowsers
  Requests <- MCRequests
  Restored <- MCRestored
  Ttl = 1
  PurgeInterval = 1
  MaxNow = 2
  MaxRequests = 3
  MaxStops = 1
SYMMETRY Symmetry
SPECIFICATION Spec
INVARIANTS SessionsSpeakTrue LogoutIsFinal
PROPERTIES SessionsAreKept
CHECK_DEADLOCK FALSE
