SPECIFICATION MCSpec
CONSTANTS
  w1 = w1
  r1 = r1
  r2 = r2
  r3 = r3
  p1 = p1
  p2 = p2
  Prompts = {p1, p2}
  N = 1
  Steps <- TwoSteps
  PromptLength = 3
  MaxPrompt = 2
  MaxAssistantTurns = 0
  MaxParallelCalls = 2
  MaxCalls = 3
  MaxToolTokens = 3
  ResponseLengths <- SomeLengths
  UserTurns <- SomeTurns
  Updates <- SomeUpdates
  Worker = {w1}
  Request = {r1, r2, r3}
  Home <- OneWorker
  Cost <- MixedCosts
  Rate = 1
  MaxTokens = 2
  MaxConcurrent = 1
  Timeout = 2
  Threads = 1
  Window = 1
INVARIANTS
  WithinLimits
  Reported
  ToolsReleased
  RowSound
PROPERTY
  AllEnd
CHECK_DEADLOCK FALSE
