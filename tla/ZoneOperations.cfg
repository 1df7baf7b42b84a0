SPECIFICATION FairSpec
CONSTANTS
  n1 = n1
  n2 = n2
  a1 = a1
  a2 = a2
  a3 = a3
  o1 = o1
  o2 = o2
  Nodes = {n1, n2}
  Attempts = {a1, a2, a3}
  Ops = {o1, o2}
  Op <- RetryOp
  At <- RetryAt
  Requests <- MixedRequests
  Grace = 1
  Suppression = 1
  Prompt = TRUE
  MaxTime = 2
  MaxFaults = 1
INVARIANT DeletionRecordedFirst
 
PROPERTY LateMountsRefused
PROPERTY StaleReplicasVanish
CHECK_DEADLOCK FALSE
