SPECIFICATION FairSpec
CONSTANTS
  Writers = {w1}
  Refresh = asq
  StopHook = stop
  MaxEvents = 1
  DeltaLimit = 1
  Cap = 2
  MaxDrafts = 0
  MaxMishaps = 0
CHECK_DEADLOCK FALSE
PROPERTY NewsReachesManager
