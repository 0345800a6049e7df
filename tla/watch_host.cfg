SPECIFICATION Spec
CONSTANTS
  BASE_RECHECK = 1
  MAX_RECHECK = 1
  Run = {p1, p2}
  Plan <- const_Plan
  Branch = {"main"}
  Nonce = {1, 2}
  MaxTime = 2
  MaxChanges = 2
  MaxCrashes = 2
  MaxAdapter = 1
  MaxAttempts = 2
SYMMETRY Interchangeable
INVARIANTS
  TypeOK
  AtMostOneSend
  DispatchUsedOnce
  RememberedWasDelivered
PROPERTIES
  ClosedWatchNeverSends
  WatchNeverRollsBack
  DeliveryKept
