SPECIFICATION MCSpec
CONSTANTS
  Keep = 2
  SyncRank = {r1, r2}
  SyncSteps = 2
  SyncEpochs = 3
  SyncFreq = 2
  SyncCrashes = 2
  NumRanks = 2
  SftFreq = 4
  SftCrashes = 3
  DataSize = 3
  AsyncEpochs = 2
  Trigger = 2
  AsyncFreq = 2
  PendingMax = 1
  MaxFlight = 2
  AsyncCrashes = 2
  StepsPerEpoch = 3
  Epochs = 3
  TotalSteps = 7
  Warmup = 2
  SaveFreq = 1
  MaxCrashes = 1
INVARIANTS
  OneStep
  Resumable
  EachBatchOnce
  LossBounded
PROPERTY
  AllTrained
CHECK_DEADLOCK FALSE
