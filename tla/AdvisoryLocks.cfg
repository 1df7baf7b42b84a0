SPECIFICATION Spec
CONSTANTS
  root = root
  a = a
  ab = ab
  Paths <- MCPaths
  RootPath = root
  Ancestors <- MCAncestors
  LockIds = {i1, i2}
  Nodes = {n1, n2}
  Capacities = {1, 2}
  Ttls = {2}
  MaxTime = 2
  MaxOutstanding = 2
SYMMETRY Symm
INVARIANT TypeOK
INVARIANT CapacityRespected
INVARIANT SubtreeExclusion
INVARIANT LeaseHonoured
INVARIANT NoConflictingLeases
