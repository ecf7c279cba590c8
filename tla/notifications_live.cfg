SPECIFICATION FairSpec
CONSTANTS
  u1 = u1
  u2 = u2
  u3 = u3
  m1 = m1
  m2 = m2
  p1 = p1
  p2 = p2
  User <- MCUser
  Message = {m1, m2}
  Author <- MCOneAuthor
  Client = {}
  Start <- MCAllMembers
  Changes = {}
  Proc = {p1, p2}
  Requests <- MCLockingRequests
  MaxRequests = 3
INVARIANT DeadlockShape
PROPERTY EveryRequestEnds
