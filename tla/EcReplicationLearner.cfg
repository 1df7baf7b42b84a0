SPECIFICATION Spec
CONSTANTS
  Keys = {k}
  Writers = {w}
  Ops = {"set"}
  Peers = {p1}
  VoterPeers = {}
  Retention = 2
  MaxBatch = 2
  MaxWrites = 3
  MaxTimeouts = 1
  MaxFailures = 1
  MaxCrashes = 1
  MaxSnapshots = 1
INVARIANT TypeOK
PROPERTY NoRollback
CHECK_DEADLOCK FALSE
