CONSTANTS
  Api = {1, 2}
  Dash = {3, 4}
  MaxEvents = 3
  MaxSubs = 2
  MaxCalls = 3
  MaxFaults = 1
  MaxJobs = 1
  Menus = {{"hook", "subscribe"}, {"hook", "query"}, {"hook", "clock"}, {"legacy", "unlock", "trigger", "job"}, {"admin", "query", "clock"}, {"admin", "job"}, {"admin", "touch", "subscribe"}}
SPECIFICATION FairSpec
INVARIANTS PlatformTypeOK AppliedOnce MirrorsGateway SuspendedNotAdmitted RunsBound
PROPERTIES TrialsEnd LockReachesOrg
CHECK_DEADLOCK FALSE
