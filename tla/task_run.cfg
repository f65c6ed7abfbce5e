\* Runs, cancellations and hooks of one task that overlap.
SPECIFICATION Spec
CONSTANTS
  Requests = {r1, r2, r3}
  Topics = {t1}
  None = None
  MaxFaults = 1
SYMMETRY Symmetry
INVARIANTS TypeOK CanceledMeansStopped 
CHECK_DEADLOCK FALSE
