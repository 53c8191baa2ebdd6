SPECIFICATION FairSpec
CONSTANTS
  Writers = {w1}
  Refresh = asq
  StopHook = stop
  MaxEvents = 2
  DeltaLimit = 1
  Cap = 1
  MaxDrafts = 1
  MaxMishaps = 1
CHECK_DEADLOCK FALSE
INVARIANTS TypeOK NothingSkipped NothingTwice
PROPERTIES DraftsAreSeen HeldNudgeGoes
