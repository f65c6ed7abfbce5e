SPECIFICATION FairSpec
CONSTANTS
  w1 = w1
  w2 = w2
  Workers = {w1, w2}
  Canceller = canceller
  Starter = starter
  MaxStep = 1
  Retries = 2
  MaxCrashes = 1
  MaxLateCrashes = 0
  MaxThrows = 1
  MaxCatchThrows = 0
  MaxOpenClaims = 0
  MaxOverruns = 0
  MaxInterrupts = 0
  MaxStarts = 0
  MaxFaults = 2
  AutoStart = TRUE
  AfterStepHooks = TRUE
  PublishReplyLost = TRUE
INVARIANT QuiescentMeansCompleted
INVARIANT FrontierExists
PROPERTY EventuallyCompletes
CHECK_DEADLOCK FALSE
