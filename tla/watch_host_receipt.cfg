SPECIFICATION Spec
CONSTANTS
  BASE_RECHECK = 1
  MAX_RECHECK = 1
  Run = {p1}
  Plan <- const_Plan
  Branch = {"main"}
  Nonce = {1}
  MaxTime = 1
  MaxChanges = 1
  MaxCrashes = 0
  MaxAdapter = 0
  MaxAttempts = 1
INVARIANTS
  AmbiguousMeansUnknown
