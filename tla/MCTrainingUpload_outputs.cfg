SPECIFICATION FairSpec
CONSTANTS
  NONE = NONE
  Upload = {u1, u2}
  Ticker = {"SCHEDULER"}
  Window <- ShortestWindow
  UploadTimeout = 2
  Grace = 1
  MaxTime = 3
INVARIANTS
  TypeOK
  FailedMeansNone
PROPERTIES
  OnlyHolderPublishes
  PublishedInTime
  ArtifactFinal
  AskedWhileRunning
  LeasesEnd
CHECK_DEADLOCK FALSE
