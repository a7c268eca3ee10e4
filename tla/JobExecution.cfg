SPECIFICATION FairSpec
CONSTANTS
  Timer = timer
  Manual = {manual}
  Job = {j1, j2}
  NoJob = NoJob
  MaxProviders = 2

INVARIANTS
  RunsAreRegistered
  NoBrowserOutlivesItsRun
  NothingOpensLate

PROPERTY EveryJobRuns
