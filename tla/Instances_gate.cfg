SPECIFICATION FairSpec
CONSTANTS
  a = a
  b = b
  c = c
  Asqs = {a, b, c}
  None = None
  ReleaseOf <- TwoReleases
  HostOf <- TwoHosts
  MaxKills = 1
CHECK_DEADLOCK FALSE
INVARIANTS TypeOK  RunningStaysListed
PROPERTY CrashedIsForgotten
