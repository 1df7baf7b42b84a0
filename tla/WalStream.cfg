SPECIFICATION FairSpec
CONSTANTS
  Nodes = {n1, n2}
  Sealers = {n1}
  Readers = {n2}
  HotWindow = 0
  SealBatch = 1
  Retention = 1
  MaxAppends = 2
  MaxGiveUps = 1
  MaxCrashes = 1
  MaxSnapshots = 1
INVARIANTS EveryEntryPlaced IndexedBlobsExist NoFalseEmpty
 
CHECK_DEADLOCK FALSE
