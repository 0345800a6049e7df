SPECIFICATION Spec
CONSTANTS
  Client = {c1, c2}
  Request = {r1, r2}
  Grant = {g1, g2}
  Thread = {t1}
  MAX_DCR_CLIENTS = 2
  MAX_INACTIVE_DCR_CLIENTS = 1
  MAX_PENDING_AUTHORIZATIONS = 1
  MAX_PENDING_PER_CLIENT = 1
  CODE_TTL = 1
  REFRESH_TTL = 1
  INACTIVE_CLIENT_TTL = 1
  MaxTime = 2
  MaxGen = 2
  MaxCrashes = 1
SYMMETRY Interchangeable
INVARIANTS
  TypeOK
  RefreshTokensOwned
  OneLiveTokenPerGrant
  SpentTokensDead
  HeldTokensKept
PROPERTY GrantPromise
CHECK_DEADLOCK FALSE
