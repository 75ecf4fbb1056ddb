SPECIFICATION FairSpec
CONSTANTS
  r1 = r1
  r2 = r2
  w1 = w1
  w2 = w2
  d1 = d1
  d2 = d2
  None = None
  NoRow = NoRow
  Gone = Gone
  Report = {r1, r2}
  Worker = {w1, w2}
  Deleter = {d1}
  Unrenderable = {r2}
  MaxRetries = 1
  MaxFaults = 2
INVARIANTS
  GenerationIsExclusive
  DownloadableUntilDeleted
PROPERTIES
  TasksDrain
  ImplementsReportRecord
CHECK_DEADLOCK FALSE
