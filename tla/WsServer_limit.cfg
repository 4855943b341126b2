\* Two requests reach the limit check before either is counted.
SPECIFICATION Spec
CONSTANTS
  c1 = c1
  c2 = c2
  u1 = u1
  u2 = u2
  Conns = {c1, c2}
  Users = {u1}
  None = None
  MaxConnections = 1
  AuthEnabled = FALSE
  Relax = {}
INVARIANT LimitRespected
CHECK_DEADLOCK FALSE
