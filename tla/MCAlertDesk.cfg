SPECIFICATION DeskSpec
CONSTANTS
  a1 = a1
  i1 = i1
  u1 = u1
  u2 = u2
  u3 = u3
  None = None
  Alert = {a1}
  Incident = {i1}
  Analyst = {u1, u2, u3}
  GivenSeverity = {"critical", "low"}
  MaxEdits = 3
INVARIANTS
  DeskTypeOK
  StatusFollowsTrail
  AlertsWereAnnounced
CHECK_DEADLOCK FALSE
