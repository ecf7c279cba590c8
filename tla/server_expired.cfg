SPECIFICATION Spec
CONSTANTS
  e1 = e1
  e2 = e2
  s1 = s1
  s2 = s2
  Email = {e1, e2}
  Code = {c1}
  Shard = {s1, s2}
  ShardOf <- MCShardOf
  Exp = 1
  Key = {"mail", "verify", "status"}
  Cooldown <- MCNoCooldown
  MaxTime = 1
  Proc = {p1, p2}
PROPERTY ExpiredRefused
CHECK_DEADLOCK FALSE
