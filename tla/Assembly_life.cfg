\* From NewServer to Stop; the failures are recorded under the ClientID.
SPECIFICATION Spec
CONSTANTS
  a = a
  b = b
  alice = alice
  s1 = s1
  s2 = s2
  s3 = s3
  None = None
  Clients = {a, b}
  Sessions = {s1, s2, s3}
  ClientOf <- TwoAndOne
  KeyOf <- TwoAndOne
  SupportsWT = {a, b}
  Confs <- Both
  MaxRetries = 2
  MaxEntries = 1
  MaxFallbacks = 2
INVARIANTS FailuresBounded StatsCoverCounts FilesLast
PROPERTY FilesRemoved
CHECK_DEADLOCK FALSE
