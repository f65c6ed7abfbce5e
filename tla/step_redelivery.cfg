SPECIFICATION Spec
CONSTANTS
  w1 = w1
  w2 = w2
  Workers = {w1, w2}
  Canceller = canceller
  Starter = starter
  MaxStep = 2
  Retries = 2
  MaxCrashes = 0
  MaxLateCrashes = 0
  MaxThrows = 0
  MaxCatchThrows = 0
  MaxOpenClaims = 0
  MaxOverruns = 0
  MaxInterrupts = 0
  MaxStarts = 0
  MaxFaults = 0
  AutoStart = TRUE
  AfterStepHooks = TRUE
  PublishReplyLost = FALSE
INVARIANT NoStepAfterCompletion
INVARIANT CompletionMatchesState
PROPERTY ImplementsOperation
CHECK_DEADLOCK FALSE
