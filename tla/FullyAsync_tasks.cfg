\* Five samples of which one may raise, one for a version, threshold 1.
SPECIFICATION Spec
CONSTANTS
  Total = 5
  Required = 1
  Trigger = 1
  StaleNum = 1
  StaleDen = 1
  Capacity = 16
  PendingMax = 1
  MaxFailures = 1
  TestFreq = 2
  SaveFreq = 2
INVARIANTS
  OutstandingBound
  QueueLag
  SamplesKept
  EndSignalSurvives
PROPERTY
  FlowControlled
CHECK_DEADLOCK FALSE
