SPECIFICATION FairSpec
CONSTANTS
  Listing = {l1, u}
  Unprobed = {u}
  Tended = {}
  Limit = 1
  FailureLimit = 2
  Stale = 2
  Retry = 1
  Retention = 1
  None = None

PROPERTY OrderStarvesNothing
