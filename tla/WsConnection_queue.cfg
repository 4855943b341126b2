\* Two senders, three messages, a queue of two that fills, a goroutine that closes.
SPECIFICATION FairSpec
CONSTANTS
  s1 = s1
  s2 = s2
  a1 = a1
  Senders = {s1, s2}
  Closers = {a1}
  Cap = 2
  MaxSends = 3
  Pump = Pump
  Reader = Reader
  None = None
  Ping = Ping
  Bye = Bye
  Junk = Junk
INVARIANT InOrder
PROPERTIES SendReturns AcceptedIsWritten CloseReturns
CHECK_DEADLOCK FALSE
