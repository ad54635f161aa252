CONSTANTS
  Settings <- MCSettings
  Concurrency = 2
  MaxRuns = 2
  MaxDays = 1
  MaxCrashes = 1
SPECIFICATION FairSpec
INVARIANTS TraceTypeOK CostsAccounted OutageKeptAsNothing
PROPERTIES RejectedOnlyAfterDeath KeepsPromise RunEnds
CHECK_DEADLOCK FALSE
