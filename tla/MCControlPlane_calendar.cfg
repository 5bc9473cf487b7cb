SPECIFICATION Spec
CONSTANTS
  j1 = j1
  j2 = j2
  s1 = s1
  s2 = s2
  g1 = g1
  g2 = g2
  NONE = NONE
  Job = {j1, j2}
  Server = {s1}
  GPU = {g1, g2}
  Request <- Overlapping
  OfflineAfter = 1
  Ticker = {"SCHEDULER"}
  Scopes = {}
  CommandLease = 0
  SubmitGrace = 0
  ReportDelay = 0
  Suspendable = {j2}
  MaxTime = 2
  MaxStops = 1
  MaxSeq = 1
  Modes = {"FULL"}
  Conditions = {"OK"}
SYMMETRY Alike
INVARIANTS
  TypeOK
  NoDoubleBooking
  ReservationsLive
PROPERTIES
  FrozenOncePast
  ImplementsPool
