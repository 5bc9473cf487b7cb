SPECIFICATION FleetSpec
CONSTANTS
  j1 = j1
  j2 = j2
  s1 = s1
  g1 = g1
  NONE = NONE
  Job = {j1}
  Server = {s1}
  GPU = {g1}
  Request <- Brief
  OfflineAfter = 1
  Ticker = {"SCHEDULER"}
  Scopes = {}
  CommandLease = 0
  SubmitGrace = 0
  ReportDelay = 3
  Suspendable = {}
  MaxTime = 3
  MaxStops = 1
  MaxSeq = 2
  MaxCommandHistory = 1
  Modes = {"FULL"}
  Conditions = {"OK"}
INVARIANTS
  MissingIsGone
CHECK_DEADLOCK FALSE
