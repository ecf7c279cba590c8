SPECIFICATION Spec
CONSTANTS
  u1 = u1
  u2 = u2
  u3 = u3
  c1 = c1
  c2 = c2
  p1 = p1
  p2 = p2
  User <- MCTwoUsers
  Channel = {c1}
  Grants <- MCGrants
  Leaver <- MCTwoUsers
  Shy = {u2}
  Message <- MCMessage
  Proc = {p1, p2}
  Requests <- MCRequests
SYMMETRY MCSymmetry
INVARIANTS TypeOK ReferentialIntegrity
PROPERTIES IsolatedCommitsAreSerial OrphanStaysOrphan
