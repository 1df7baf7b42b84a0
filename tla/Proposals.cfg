SPECIFICATION ProposalSpec
CONSTANTS
  Nodes = {n1, n2}
  NoNode = NoNode
  Calls = {c1, c2}
  MaxElections = 2
  MaxCrashes = 1
SYMMETRY Symm
INVARIANTS
  AtMostOnce
  RefusalIsDefinite
CHECK_DEADLOCK FALSE
