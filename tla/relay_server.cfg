SPECIFICATION Spec
CONSTANTS
  Source = {s1, s2, s3}
  MAX_EVENTS = 2
  WINDOW = 1
  MAX_SOURCES = 2
  Thread = {t1}
  Grant = {g1}
  Environment <- const_Environment
  ACCESS_TTL = 1
  REFRESH_TTL = 2
  MaxTime = 3
  MaxTokens = 2
  MaxCrashes = 2
  MaxFailures = 6
  Traffic = {"calls", "owner"}
INVARIANTS
  CredentialOfItsMode
  PublicGrantsKept
  AudienceKept
  LockoutHolds
  SourcesCapped
PROPERTIES
  RevokedNeverServed
CHECK_DEADLOCK FALSE
