SPECIFICATION LiveSpec
CONSTANTS
  c1 = c1
  c2 = c2
  a = a
  b = b
  c = c
  d = d
  Consumer <- MCConsumer
  Item <- MCItem
  MaxQueueSize = 2
INVARIANTS
  NoLostWakeup
  OldestFirst
PROPERTY
  ShutdownReleases
CHECK_DEADLOCK FALSE
