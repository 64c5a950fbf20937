\* one_step_off.md: the loop ends when there is no more data.
CONSTANTS
  StepsPerEpoch = 3
  Epochs = 2
  TotalSteps = 6
  Warmup = 0
  SaveFreq = 1
  MaxCrashes = 1
SPECIFICATION Spec
INVARIANTS NeverStarved
CHECK_DEADLOCK FALSE
