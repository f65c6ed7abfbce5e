SPECIFICATION FairSpec
CONSTANTS
  LastEvent = 5
  EndEvent = 4
  MaxDrops = 3
  LiveBeforeReplay = TRUE
  TokenExpires = FALSE
  UserLeaves = FALSE
INVARIANT NoEventTwice
PROPERTY EventuallyTold
CHECK_DEADLOCK FALSE
