SPECIFICATION Spec
CONSTANTS
  u1 = u1
  u2 = u2
  u3 = u3
  m1 = m1
  m2 = m2
  p1 = p1
  p2 = p2
  User <- MCUser
  Message = {m1, m2}
  Author <- MCAuthor
  Client = {u3}
  Start <- MCStart
  Changes <- MCChanges
  Proc = {p1, p2}
  Requests <- MCRequests
  MaxRequests = 3
SYMMETRY MCSymmetry
INVARIANTS TypeOK StoredWasSent ClientMissesOnlyUnderway
PROPERTIES LostOnlyByOverlap IsolatedRequestsAuthorised MembersNotified
