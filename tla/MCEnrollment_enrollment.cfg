SPECIFICATION FairSpec
CONSTANTS
  s1 = s1
  s2 = s2
  m1 = m1
  m2 = m2
  NONE = NONE
  Machine = {m1, m2}
  Server = {s1, s2}
  Loop <- TwoAndOne
  Configured <- Contested
  EnrollmentLife = 1
  Revocable = {s1}
  Steady = {m1}
  MaxTime = 2
  MaxLate <- OneLate
INVARIANTS
  SameOwner
  BoundIsAccepted
PROPERTIES
  NeverLockedOut
