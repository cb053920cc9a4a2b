\* The default zone: a changing hour, forced requests of the API, a failed
\* call or a restart of the scheduler, failing executions.
CONSTANTS
  H = 4
  MaxDate = 1
  Configs <- Shanghai
  ManualIds <- ForcedLater
  MaxRetry = 1
  MaxFaults = 1
SPECIFICATION FairSpec
INVARIANTS NoDateMissed OncePerDate
PROPERTIES ReachesSchedule AskedIsSettled
CHECK_DEADLOCK FALSE
