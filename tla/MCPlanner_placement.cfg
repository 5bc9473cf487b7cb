SPECIFICATION Spec
CONSTANTS
  j1 = j1
  j2 = j2
  j3 = j3
  s1 = s1
  s2 = s2
  g1 = g1
  g2 = g2
  g3 = g3
  NONE = NONE
  Job = {j1, j2, j3}
  Server = {s1, s2}
  GPU = {g1, g2, g3}
  Request <- Windows
  OfflineAfter = 1
  Week = 1
  InSizingPlan = TRUE
  QuotaGPUs = 3
  UsedGPUs = 2
  Intent <- Applicants
  MinVRAM <- Small
  Total <- Sizes
  Fits <- Models
  Number <- Names
  Home <- Racks
  Suspendable = {j1, j3}
  Times = {5, 6, 8}
  Usage = {0, 1}
  Conditions = {"OK"}
INVARIANTS
  Agreed
  Greedy
  Fifo
PROPERTIES
  Settled
