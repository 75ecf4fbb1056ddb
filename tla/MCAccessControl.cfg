SPECIFICATION Spec
CONSTANTS
  o1 = o1
  o2 = o2
  u1 = u1
  u2 = u2
  k1 = k1
  k2 = k2
  q1 = q1
  q2 = q2
  None = None
  Org = {o1, o2}
  User = {u1, u2}
  Key = {k1, k2}
  Req = {q1, q2}
  KeyOwner <- MCKeyOwner
  Operator = {u2}
  Edits <- MCEdits
  MaxUsers = 2
  MaxRequests = 6
SYMMETRY Symmetry
INVARIANTS
  DeadlocksAreOfRevokers
  SomeoneGoesOn
PROPERTIES
  KeysStayRevoked
  AuthorityComesFromAuthority
CHECK_DEADLOCK FALSE
