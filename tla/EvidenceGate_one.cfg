SPECIFICATION Spec
CONSTANTS
  Tasks = {t1}
  Briefs = {b1}
  Reqs = {r1, r2}
  Clients = {c1, c2}
  Notes = {n1, n2}
  ToBlock = 2
  MaxRev = 3
  MaxSource = 1
  Holders = {h1}
  NoOne = nobody
  Lease = 1
INVARIANT TypeOK
SYMMETRY Alike
PROPERTIES  NothingOverwritten BriefWritesSpareWorkers
