\* Two users whose logs are cleared at any time, and a poller of one of them.
SPECIFICATION FairSpec
CONSTANTS
  u1 = u1
  u2 = u2
  p1 = p1
  t1 = t1
  t2 = t2
  None = None
  Users = {u1, u2}
  Pollers = {p1}
  Owner <- OnePoller
  Topics = {t1, t2}
  Limits = {0, 2}
  BatchSize = 0
  MaxMessages = 3
INVARIANTS LogShape NoGap
PROPERTIES ImplementsLog EveryMessageArrives
