SPECIFICATION FairSpec
CONSTANTS
  u1 = u1
  u2 = u2
  m1 = m1
  m2 = m2
  p1 = p1
  p2 = p2
  p3 = p3
  User <- MCUser
  Post <- MCPost
  Author <- MCAuthor
  Parent <- MCParent
  Start = {m1}
  Proc = {p1, p2, p3}
  Workloads <- MCWorkloads
  PoolSize = 2
  QueueSize = 1
  Permits = 1
INVARIANTS TypeOK ReactionsMoveOnce VectorlessForAReason BlockedNotServed DeadlockShape
PROPERTIES VectorLostOnlyByOverlap OwnReactionCounted RequestsEnd BoardSpec
CHECK_DEADLOCK FALSE
