SPECIFICATION FairSpec
CONSTANTS
  o1 = o1
  o2 = o2
  a1 = a1
  a2 = a2
  b1 = b1
  b2 = b2
  shared = shared
  near = near
  burst = burst
  w1 = w1
  w2 = w2
  None = None
  Raises = Raises
  NoPlace = NoPlace
  Global = Global
  Org = {o1, o2}
  Alert = {a1, a2, b1, b2}
  Rule = {shared, near, burst}
  AlertRow <- MCAlertRow
  RuleRow <- MCRuleRow
  Sweeper = {w1, w2}
  RunNow = {o1}
  Later = {a2, near}
  MaxCommits = 2
  MaxEdits = 1
  MaxFaults = 1
INVARIANTS
  TypeOK
  SharedOnlyByOverlap
  EscalationIsWhole
  TenantsApart
  GroupsAreSound
PROPERTIES
  CorrelatedInTheEnd
CHECK_DEADLOCK FALSE
