SPECIFICATION FairReadSpec
CONSTANTS
  root = root
  p = p
  i1 = i1
  i2 = i2
  k = k
  v1 = v1
  r1 = r1
  r2 = r2
  Paths <- MCPaths
  RootPath = root
  Ancestors <- MCAncestors
  LockIds = {i1, i2}
  Keys = {k}
  Values = {v1}
  NoValue = NoValue
  Members = {}
  Commands <- ZoneCommands
  Threshold = 1
  MaxLog = 3
  MaxCrashes = 1
  CrashPoints = {"idle", "applying", "installing"}
  Readers = {r1}
  LateAnswers = FALSE
INVARIANT TypeOK
INVARIANT LocksFollowLog
 
INVARIANT MetadataIsPrefix
INVARIANT RestartSucceeds
INVARIANT ReadsAreLinearizable
PROPERTY CatchesUp
CHECK_DEADLOCK FALSE
