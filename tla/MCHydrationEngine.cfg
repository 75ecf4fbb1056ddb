SPECIFICATION FairSpec
CONSTANTS
  s1 = s1
  w1 = w1
  h1 = h1
  h2 = h2
  u1 = u1
  None = None
  Source = {s1}
  Sweeper = {w1}
  Worker = {h1, h2}
  Admin = {u1}
  Threshold = 2
  MaxRetries = 1
  MaxQueued = 1
  MaxEdits = 1
  MaxFaults = 1
INVARIANTS
  TypeOK
  BreakerIsEarned
  InServiceIsClosed
PROPERTIES
  FailingSourceIsTakenOut
