SPECIFICATION Spec
CONSTANTS
  NONE = NONE
  Upload = {u1, u2, u3}
  Ticker = {"SCHEDULER"}
  Window <- ShortWindow
  UploadTimeout = 2
  Grace = 1
  MaxTime = 6
SYMMETRY Requests
INVARIANTS
  PriorCheckpointKept
CHECK_DEADLOCK FALSE
