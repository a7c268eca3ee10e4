SPECIFICATION FairSpec
CONSTANTS
  Listing = {l1, l2, l3, l4}
  Concurrency = 2
  MaxQueued = 2

INVARIANTS
  CapturedOnce
  QueueIsSound
  FetchStillWanted
PROPERTIES EveryCaptureEnds WaiterIsTold
