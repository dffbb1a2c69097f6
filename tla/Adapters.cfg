SPECIFICATION Spec
CONSTANTS
  Runs = {r1, r2}
  Owners = {a, b}
  Keys = {k1, k2}
  MaxTtl = 3
  NoOwner = NoOwner
  NoRun = NoRun
  NoKey = NoKey
INVARIANTS
  RepositoryConsistent
PROPERTY ExclusiveLeases
