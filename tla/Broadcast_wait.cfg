\* Both servers; a caller blocks the others, a peer stops reading, Stop at any time.
SPECIFICATION FairSpec
CONSTANTS
  c1 = c1
  c2 = c2
  b1 = b1
  Conns = {c1, c2}
  Callers = {b1}
  Closer = Closer
  None = None
  Cap = 1
  Settings <- BothServers
INVARIANT WalkStable
PROPERTIES CallsReturn HandlersProceed StopProceeds
CHECK_DEADLOCK FALSE
