\* Two sessions, authentication, and Stop and broadcasts at any time.
SPECIFICATION Spec
CONSTANTS
  c1 = c1
  c2 = c2
  u1 = u1
  Conns = {c1, c2}
  Users = {u1}
  None = None
  MaxConnections = 1
  AuthEnabled = TRUE
  BindInOnMessage = FALSE
  Rebinds = FALSE
  ReadLocks = {"connectionsMu"}
SYMMETRY Symmetry
INVARIANTS RegistryExact WaitGroupExact NoAcceptorLeft
PROPERTY ImplementsRegistry
CHECK_DEADLOCK FALSE
