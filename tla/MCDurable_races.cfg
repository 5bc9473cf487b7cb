SPECIFICATION FairDurableSpec
CONSTANTS
  j1 = j1
  s1 = s1
  g1 = g1
  NONE = NONE
  Job = {j1}
  Server = {s1}
  GPU = {g1}
  Request <- Single
  OfflineAfter = 1
  Ticker = {"SCHEDULER", "RECONCILER"}
  Scopes = {}
  CommandLease = 0
  SubmitGrace = 0
  ReportDelay = 1
  Suspendable = {}
  MaxTime = 4
  MaxStops = 2
  MaxSeq = 1
  Modes = {"FULL"}
  Conditions = {"OK"}
INVARIANTS
  ReleasedWhenFinished
  StopBookkeeping
  NoDanglingStart
PROPERTIES
  TerminalForever
  DispatchOnProof
  NoRedispatch
  StopIsLast
  AdmittedSettles
  OverdueStopped
