SPECIFICATION Spec
CONSTANTS
  e1 = e1
  e2 = e2
  s1 = s1
  s2 = s2
  Email = {e1, e2}
  Code = {c1, c2}
  Shard = {s1, s2}
  ShardOf <- MCShardOf
  Exp = 1
  Key = {"mail", "verify", "status"}
  Cooldown <- MCCooldown
  MaxTime = 2
  Proc = {p1, p2}
SYMMETRY MCSymmetry
INVARIANTS TypeOK SpentCodesAreGone
PROPERTIES AdmittedApart UnracedVerification LatestMailWorks
CHECK_DEADLOCK FALSE
