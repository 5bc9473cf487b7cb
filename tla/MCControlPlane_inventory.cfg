SPECIFICATION Spec
CONSTANTS
  j1 = j1
  j2 = j2
  s1 = s1
  s2 = s2
  g1 = g1
  g2 = g2
  NONE = NONE
  Job = {j1}
  Server = {s1}
  GPU = {g1}
  Request <- Single
  OfflineAfter = 0
  Ticker = {"RECONCILER", "MANUAL"}
  Scopes = {{j1}}
  CommandLease = 0
  SubmitGrace = 1
  ReportDelay = 0
  Suspendable = {}
  MaxTime = 2
  MaxStops = 1
  MaxSeq = 1
  Modes = {"FULL", "NO_DOCKER", "NO_GPU", "OBSERVE"}
  Conditions = {"OK", "ABSENT", "UNKNOWN", "LEGACY", "STRAY", "UNHEALTHY"}
INVARIANTS
  ActiveProtected
  InFlightNotFree
