SPECIFICATION FairSpec
CONSTANTS
  Records = {1, 2, 3}
  Sweepers = {s1}
  RunOf <- TwoRuns
  Readable = {1, 2}
  Corrupt = {3}
  Limit = 2
  Stale = 2
  MaxKills = 2
PROPERTY PublishedSettles
