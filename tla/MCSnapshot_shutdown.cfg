SPECIFICATION Spec
CONSTANTS
  p1 = p1
  p2 = p2
  t1 = t1
  t2 = t2
  t3 = t3
  NONE = NONE
  Process = {p1, p2}
  Thread = {t1, t2, t3}
  Home <- TwoAndOne
  Content <- Tables
  Empty <- NoTables
  Untrusted <- Distrust
SYMMETRY
  Goroutines
INVARIANT
  OneWriter
