SPECIFICATION FairSpec
CONSTANTS
  Keys = {k1, k2}
  Writers = {w}
  Ops = {"set", "delete"}
  Peers = {p1, p2}
  VoterPeers = {p1}
  Retention = 9
  MaxBatch = 1
  MaxWrites = 3
  MaxTimeouts = 1
  MaxFailures = 0
  MaxCrashes = 0
  MaxSnapshots = 0
INVARIANT NothingSkipped
 
 
CHECK_DEADLOCK FALSE
