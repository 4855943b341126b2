\* Three connections, two users, two rooms: a user comes back on another connection.
SPECIFICATION Spec
CONSTANTS
  c1 = c1
  c2 = c2
  c3 = c3
  u1 = u1
  u2 = u2
  r1 = r1
  r2 = r2
  Blank = Blank
  None = None
  Conns = {c1, c2, c3}
  Users = {u1, u2}
  Rooms = {r1, r2}
  Relax = {}
SYMMETRY Symmetry
INVARIANTS MembersConnected IndexAgrees RosterSound
CHECK_DEADLOCK FALSE
