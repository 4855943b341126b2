\* Two requests, a clock that moves on, BindUser called from the callbacks
\* and once per user: the registry and the counter.
SPECIFICATION Spec
CONSTANTS
  c1 = c1
  c2 = c2
  u1 = u1
  u2 = u2
  Conns = {c1, c2}
  Users = {u1, u2}
  None = None
  MaxConnections = 1
  AuthEnabled = TRUE
  Relax = {}
SYMMETRY Symmetry
INVARIANTS CountExact RegistryExact UserIndexExact Notified
PROPERTIES CallbackOrder ImplementsRegistry
CHECK_DEADLOCK FALSE
