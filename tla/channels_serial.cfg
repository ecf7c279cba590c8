SPECIFICATION Spec
CONSTANTS
  u1 = u1
  u2 = u2
  u3 = u3
  c1 = c1
  c2 = c2
  User <- MCUser
  Channel <- MCChannels
  Grants <- MCGrants
  Leaver <- MCUser
  Shy <- MCUser
SYMMETRY MCSymmetry
PROPERTIES OnlyDeletionOrphans OrphanOnlyShrinks
