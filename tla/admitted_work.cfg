SPECIFICATION Spec
CONSTANTS
  Proposal <- const_Proposal
  Files = 3
  File <- const_File
  WIP_LIMIT = 2
  Packet <- const_Packet
  Content = {m1}
  Scene <- const_Scene
  c1 = c1
  c2 = c2
  Unknown = {"TIMEOUT"}
  Caller = {c1, c2}
  DispatchId = {d1, d2}
  DISPATCH_TTL = 1
  RETRY_BUDGET = 1
  MaxCrashes = 1
SYMMETRY AnyDispatch
INVARIANTS
  ClaimsIndependent
  WrittenUnderItsClaim
  WrittenOnce
  NeverResent
PROPERTIES
  CleanupLosesNothing
CHECK_DEADLOCK FALSE
