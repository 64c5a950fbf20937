\* Two training steps of two prompts with two sessions each.
CONSTANTS
  Prompts = {p1, p2}
  N = 2
  Steps <- TrainSteps
SPECIFICATION Spec
SYMMETRY Symmetry
INVARIANTS
  WholeGroups
  OnlyOwnKeys
CHECK_DEADLOCK FALSE
