\* Times in units of ten seconds; two sockets share the alarm.
SPECIFICATION Spec
CONSTANTS
  s1 = s1
  s2 = s2
  Sockets = {s1, s2}
  AUTH_TIMEOUT = 1
  HEARTBEAT_TIMEOUT = 6
  HEARTBEAT_CHECK_INTERVAL = 4
  HEARTBEAT_INTERVAL = 3
  MAX_MISSED_HEARTBEATS = 2
  LOGIN = 1
  DELAY = 1
  LATE = 1
  RETRY = 1
SYMMETRY SocketSymmetry
INVARIANTS
  TypeOK
  AlarmWhileSockets
  GoneInTime
  HealthyKept
