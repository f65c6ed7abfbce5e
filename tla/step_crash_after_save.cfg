SPECIFICATION FairSpec
CONSTANTS
  w1 = w1
  w2 = w2
  Workers = {w1, w2}
  Canceller = canceller
  Starter = starter
  MaxStep = 1
  Retries = 2
  MaxCrashes = 0
  MaxLateCrashes = 1
  MaxThrows = 0
  MaxCatchThrows = 0
  MaxOpenClaims = 0
  MaxOverruns = 0
  MaxInterrupts = 0
  MaxStarts = 0
  MaxFaults = 1
  AutoStart = TRUE
  AfterStepHooks = TRUE
  PublishReplyLost = FALSE
PROPERTY EventuallyCompletes
CHECK_DEADLOCK FALSE
