\* Three decisions about two tools, posted or sent in place, with a failure.
SPECIFICATION FairSpec
CONSTANTS
  Tools = {t1, t2}
  Requests = {1, 2, 3}
  Paused = 0
  MaxFaults = 1
INVARIANTS TypeOK NoLostResume AnswersAreInformed
PROPERTY BatchIsAnswered
CHECK_DEADLOCK FALSE
