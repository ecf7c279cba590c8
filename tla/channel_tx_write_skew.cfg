SPECIFICATION Spec
CONSTANTS
  u1 = u1
  u2 = u2
  u3 = u3
  c1 = c1
  c2 = c2
  p1 = p1
  p2 = p2
  User <- MCTwoUsers
  Channel = {c1}
  Grants <- MCGrants
  Leaver = {}
  Shy = {}
  Message = {}
  Proc = {p1, p2}
  Requests <- MCMembershipRequests
INVARIANT EveryChannelManaged
