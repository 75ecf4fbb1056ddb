SPECIFICATION FairSpec
CONSTANTS
  p1 = p1
  p2 = p2
  hook = hook
  bad = bad
  None = None
  Proc = {p1, p2}
  Note = {hook, bad}
  ChannelOf <- MCChannelOf
  Malformed = {bad}
  BatchSize = 2
  MaxAborts = 1
  MaxExpiries = 1
  DeliveredCap = 2
INVARIANTS
  OneSweepUnlessExpired
  TwiceOnlyAfterTrouble
  SentWasDelivered
PROPERTIES
  PendingIsSwept
