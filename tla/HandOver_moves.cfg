SPECIFICATION FairSpec
CONSTANTS
  Movers = {m1, m2}
  MaxRows = 2
  MaxCommands = 2
  MaxKills = 1
  LateStarts = FALSE
CHECK_DEADLOCK FALSE
INVARIANTS TypeOK OneHandOver ExitOnce NobodyStranded
PROPERTIES  DeadRowEnds
