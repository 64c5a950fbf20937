\* Batches of two, two local steps for a version, five samples: one is left over, up to three tasks.
SPECIFICATION LiveSpec
CONSTANTS
  Total = 5
  Required = 2
  Trigger = 2
  StaleNum = 0
  StaleDen = 1
  Capacity = 3
  PendingMax = 1
  MaxFailures = 1
  TestFreq = 2
  SaveFreq = 2
INVARIANTS
  CompleteRun
  VersionsWhole
PROPERTY
  EndsOrStarves
CHECK_DEADLOCK FALSE
