\* Completions of two requests, edits and failures around a common dependent.
SPECIFICATION FairSpec
CONSTANTS
  a = a
  b = b
  c = c
  parent = parent
  Tasks = {a, b, c, parent}
  Requests = {r1, r2}
  None = None
  Parent <- MCParent
  BeforeIds <- MCBeforeIds
  AfterIds <- MCAfterIds
  InitBlocks <- MCInitBlocks
  MaxCalls = 3
  MaxFailures = 1
INVARIANTS TypeOK NoLostUnlock
PROPERTY UnlocksHappen
CHECK_DEADLOCK FALSE
