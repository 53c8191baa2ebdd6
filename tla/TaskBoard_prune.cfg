SPECIFICATION FairSpec
CONSTANTS
  Tasks = {1}
  Sessions = {s1, s2}
  Cli = cli
  Holders = {s1, s2, cli}
  NoOne = nobody
  Suits <- AnyRole
  Lease = 2
  StaleAfter = 0
  OrphanAfter = 1
  Pruning = TRUE
INVARIANTS TypeOK ClaimsCoherent
PROPERTIES   AbandonedWorkComesFree
