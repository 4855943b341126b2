\* One session (a session waits for another through Stop and the locks only):
\* Stop drains it while broadcasts come and go.
SPECIFICATION FairSpec
CONSTANTS
  c1 = c1
  u1 = u1
  u2 = u2
  Conns = {c1}
  Users = {u1, u2}
  None = None
  MaxConnections = 0
  AuthEnabled = TRUE
  BindInOnMessage = TRUE
  Rebinds = TRUE
  ReadLocks = {"connectionsMu", "userConnsMu"}
PROPERTY StopDrains
CHECK_DEADLOCK FALSE
