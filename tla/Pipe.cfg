SPECIFICATION FairSpec
CONSTANTS
  HeaderSize = 4
  Capacity = 5
  Lens = {0, 1, 2, 6}
  Notifying = {w1}
  Bare = {}
  Readers = {r1, r2}
  MaxMsgs = 2
INVARIANT UsedCoversRing
PROPERTY ImplementsQueue
PROPERTY ParkedReadersWake
