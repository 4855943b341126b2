\* Two shards: three connections and a walker, or two connections and the manager.
SPECIFICATION HeartbeatSpec
CONSTANTS
  c1 = c1
  c2 = c2
  c3 = c3
  u1 = u1
  u2 = u2
  r1 = r1
  None = None
  All = All
  N = 2
  Conns = {c1, c2, c3}
  ShardOf <- Spread
  Users = {u1, u2}
  Walkers = {r1}
  Manager = r1
  Watched = {c1, c2}
  Timeout = 1
  MaxClock = 3
  Relax = {}
INVARIANTS IndexExact WalkSound SteadyStaysOpen
PROPERTIES ImplementsRegistry IdleClosed
CHECK_DEADLOCK FALSE
