SPECIFICATION Spec
CONSTANTS
  q1 = q1
  q2 = q2
  l1 = l1
  None = None
  Purger = Purger
  Req = {q1}
  Token = {1, 2}
  Link = {l1}
  MaxAttempts = 1
  MaxFaults = 0
PROPERTY LockoutAfterFailures
