CONSTANTS
  t1 = t1
  t2 = t2
  s1 = s1
  Launched <- MCLaunched
  Streams <- MCStreams
  QueueSize = 2
  MaxProgress = 2
SPECIFICATION EventsSpec
INVARIANTS NothingNewIsMissed
PROPERTIES NeverBackwards ClosesByItself
CHECK_DEADLOCK FALSE
