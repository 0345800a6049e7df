SPECIFICATION Spec
CONSTANTS
  BASE_RECHECK = 1
  MAX_RECHECK = 3
  WatchClass = "worker_progress_or_yield"
  Revision = {1, 2}
  Subject = {"s1", "s2"}
  Data = {"d1", "d2"}
  Plan <- const_Plan
  Budget = {2}
  MaxTime = 3
  MaxFailures = 3
INVARIANTS
  ToldOnce
  SuppressedWasTold
  RecheckBounded
  TransientEscalates
PROPERTIES
  ClosedIsFinal
  NeverRollsBack
