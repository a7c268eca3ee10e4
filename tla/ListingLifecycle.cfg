SPECIFICATION FairSpec
CONSTANTS
  Listing = {l1, l2, u}
  Unprobed = {u}
  Tended = {l1}
  Limit = 2
  FailureLimit = 2
  Stale = 2
  Retry = 1
  Retention = 1
  None = None

INVARIANTS
  TypeOK
  RetentionClockHonest
PROPERTIES
  DeactivatedForCause
  LaterChecksRespectCorrection
  NothingStarved
