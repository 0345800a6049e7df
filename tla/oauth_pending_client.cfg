SPECIFICATION Spec
CONSTANTS
  Client = {c1, c2}
  Request = {r1, r2}
  Grant = {g1}
  Thread = {t1, t2}
  MAX_DCR_CLIENTS = 2
  MAX_INACTIVE_DCR_CLIENTS = 1
  MAX_PENDING_AUTHORIZATIONS = 1
  MAX_PENDING_PER_CLIENT = 1
  CODE_TTL = 0
  REFRESH_TTL = 1
  INACTIVE_CLIENT_TTL = 1
  MaxTime = 1
  MaxGen = 1
  MaxCrashes = 0
SYMMETRY Interchangeable
PROPERTY OpenConsentsSpared
CHECK_DEADLOCK FALSE
