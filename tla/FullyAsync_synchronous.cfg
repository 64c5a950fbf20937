\* Three samples, one for a version, no staleness.
SPECIFICATION LiveSpec
CONSTANTS
  Total = 3
  Required = 1
  Trigger = 1
  StaleNum = 0
  StaleDen = 1
  Capacity = 16
  PendingMax = 1
  MaxFailures = 0
  TestFreq = 2
  SaveFreq = 2
PROPERTIES
  TrainerServed
CHECK_DEADLOCK FALSE
