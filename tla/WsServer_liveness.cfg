\* One request (the connections share nothing they wait for): it ends, and Stop
\* drains it.
SPECIFICATION FairSpec
CONSTANTS
  c1 = c1
  u1 = u1
  u2 = u2
  Conns = {c1}
  Users = {u1, u2}
  None = None
  MaxConnections = 0
  AuthEnabled = TRUE
  Relax = {"rebind", "async"}
PROPERTIES DeadConnectionEnds StopDrains
CHECK_DEADLOCK FALSE
