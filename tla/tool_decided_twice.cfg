\* A tool that is approved twice, from two tabs, without failures.
SPECIFICATION Spec
CONSTANTS
  Tools = {t1}
  Requests = {1, 2}
  Paused = 0
  MaxFaults = 0
INVARIANT ToolRunsOnce
CHECK_DEADLOCK FALSE
