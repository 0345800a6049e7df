SPECIFICATION Spec
CONSTANTS
  BASE_RECHECK = 1
  MAX_RECHECK = 1
  h1 = h1
  h2 = h2
  Heads <- const_Heads
  Packet <- const_Packet
  Origin <- const_Origin
  Run = {r1, r2}
  Verdicts = {"PASS", "FAIL"}
  Claims = {"ACTIVE", "NONE"}
  MaxTrouble = 2
INVARIANTS
  PlannedConsistently
  ToldOfOneInstant
  VerdictOfTheSubject
PROPERTIES
  DueIsTold
