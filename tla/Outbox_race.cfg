SPECIFICATION Spec
CONSTANTS
  Records = {1, 2}
  Sweepers = {s1, s2}
  RunOf <- OneRun
  Readable = {1}
  Corrupt = {2}
  Limit = 2
  Stale = 2
  MaxKills = 1
INVARIANTS TypeOK NeverLost SharedOnlyWhenStale ReadableBuriedOnlyWhenStale
PROPERTY KeepsPromise
