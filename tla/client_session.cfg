SPECIFICATION Spec
CONSTANTS
  LastEvent = 5
  EndEvent = 4
  MaxDrops = 3
  LiveBeforeReplay = TRUE
  TokenExpires = TRUE
  UserLeaves = TRUE
INVARIANT TypeOK
INVARIANT EmittedInOrder
INVARIANT CompletedMeansAll
INVARIANT OneWayForward
PROPERTY QuietAfterDisconnect
CHECK_DEADLOCK FALSE
