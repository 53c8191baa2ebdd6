SPECIFICATION Spec
CONSTANTS
  Movers = {m1, m2}
  MaxRows = 2
  MaxCommands = 2
  MaxKills = 0
  LateStarts = FALSE
CHECK_DEADLOCK FALSE
PROPERTY LiveWorkKept
