SPECIFICATION MCSpec
CONSTANTS
  MaxItems = 6
  MaxParts = 4
  Workloads = {0, 1, 3}
  MaxSamples = 5
  Lengths = {1, 2, 3, 4}
  Arguments <- MicroCalls
  Group <- SomeGroups
INVARIANTS
  Balanced
  RestoredInOrder
  Loads
  AnswersInPlace
CHECK_DEADLOCK FALSE
