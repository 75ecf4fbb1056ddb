SPECIFICATION FairSpec
CONSTANTS
  u1 = u1
  u2 = u2
  o1 = o1
  s1 = s1
  s2 = s2
  None = None
  User = {u1}
  Org = {o1}
  Socket = {s1, s2}
  UserOf <- MCUserOfTabs
  OrgOf <- MCOrgOfTabs
  MaxMsgs = 2
  MaxRedisErrors = 1
INVARIANTS
  RegistryConsistent
  OneListenerPerChannel
  SubscribedWhileConnected
PROPERTIES
  EnqueuedIsDelivered
CHECK_DEADLOCK FALSE
