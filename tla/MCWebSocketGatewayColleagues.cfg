SPECIFICATION Spec
CONSTANTS
  u1 = u1
  u2 = u2
  o1 = o1
  s1 = s1
  s2 = s2
  None = None
  User = {u1, u2}
  Org = {o1}
  Socket = {s1, s2}
  UserOf <- MCUserOf
  OrgOf <- MCOrgOf
  MaxMsgs = 3
  MaxRedisErrors = 0
PROPERTIES
  ImplementsPushFanout
CHECK_DEADLOCK FALSE
