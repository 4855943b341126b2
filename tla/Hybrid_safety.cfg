\* Two WebSocket connections and a WebTransport session.
SPECIFICATION Spec
CONSTANTS
  c1 = c1
  c2 = c2
  w1 = w1
  u1 = u1
  u2 = u2
  WsConns = {c1, c2}
  WtConns = {w1}
  Users = {u1, u2}
  None = None
  Error = Error
  Decimal <- Digits
  Requests <- SomeRequests
  Settings <- SomeSettings
SYMMETRY Symmetry
INVARIANTS ServedListed  AuthenticatedUser
CHECK_DEADLOCK FALSE
