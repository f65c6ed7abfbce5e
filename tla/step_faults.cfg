SPECIFICATION Spec
CONSTANTS
  w1 = w1
  w2 = w2
  Workers = {w1, w2}
  Canceller = canceller
  Starter = starter
  MaxStep = 1
  Retries = 1
  MaxCrashes = 0
  MaxLateCrashes = 0
  MaxThrows = 1
  MaxCatchThrows = 1
  MaxOpenClaims = 0
  MaxOverruns = 1
  MaxInterrupts = 1
  MaxStarts = 1
  MaxFaults = 3
  AutoStart = FALSE
  AfterStepHooks = TRUE
  PublishReplyLost = TRUE
SYMMETRY WorkerSymmetry
INVARIANT TypeOK
INVARIANT OneExecutorPerStep
INVARIANT SavedStepNotRerun
INVARIANT RunsOnlyActiveState
INVARIANT EndEventAtMostOnce
INVARIANT QuiescentMeansEnded
CHECK_DEADLOCK FALSE
