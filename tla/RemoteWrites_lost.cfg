SPECIFICATION FairSpec
CONSTANTS
  Ids = {i1}
  Others = {o1}
  RequestIds = {i1, o1}
  Kept = 1
  Known = 2
  Ttl = 2
  RetryWithin = 0
  Delay = 1
  Unlocks = 2
  MaxRestarts = 1
CHECK_DEADLOCK FALSE
INVARIANT TypeOK
PROPERTIES RunsOnce AnswersAreTrue OrphansHear
