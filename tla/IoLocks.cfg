SPECIFICATION Spec
CONSTANTS
  root = root
  a = a
  ab = ab
  b = b
  dash = dash
  dashc = dashc
  az = az
  Paths <- MCPaths
  RootPath = root
  Ancestors <- MCAncestors
  Rank <- MCRank
  Calls <- MCCalls
  Threads = {t1, t2, t3}
SYMMETRY Symm
INVARIANT WritersAreAlone
INVARIANT EntriesMatchHandles
INVARIANT NoCircularWait
