SPECIFICATION MCSpec
CONSTANTS
  r1 = r1
  r2 = r2
  Request <- Two
  NumServers = 2
  ResponseLength = 2
  Slack = 1
  CallerLimit = 0
  CacheSize = 1
  Pausing = TRUE
  Partial = TRUE
  MaxUpdates = 2
  MaxFailures = 0
  OwnLimit = 2
  OwnCacheSize = 2
  OwnUpdates = 1
  OwnFailures = 1
  LastRank = 3
  NumBuckets = 4
  Numels = {1, 2, 3, 5}
  Items = {1, 2}
  BucketSize = 4
  IpcSize = 5
  MaxWeights = 4
INVARIANTS
  AttemptsKept
  LabelsCover
  ChainSound
  WeightsLoaded
PROPERTIES
  Uninterrupted
  AllAnswered
CHECK_DEADLOCK FALSE
