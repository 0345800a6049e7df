SPECIFICATION Spec
CONSTANTS
  BASE_RECHECK = 1
  MAX_RECHECK = 3
  WatchClass = "worker_progress_or_yield"
  Revision = {1, 2}
  Subject = {"s1"}
  Data = {"d1"}
  Plan <- const_Plan
  Budget = {2}
  MaxTime = 2
  MaxFailures = 2
INVARIANTS
  OlderChangesNothing
