SPECIFICATION FairSpec
CONSTANTS
  u1 = u1
  u2 = u2
  u3 = u3
  c1 = c1
  c2 = c2
  p1 = p1
  p2 = p2
  User <- MCUser
  Channel = {c1, c2}
  Grants <- MCGrants
  Leaver = {u3}
  Shy = {}
  Message <- MCMessageOfLeaver
  Proc = {p1, p2}
  Requests <- MCLockingRequests
INVARIANT DeadlockShape
PROPERTY EveryRequestEnds
